---- MODULE Spec2Model ----
(***************************************************************************)
(* A model of PNICER (src/pnicer.py): the feature space (DataBase and its  *)
(* subclasses Magnitudes and Colors), the extinction vector and its        *)
(* rotation, the grid construction and the best-of-combination selection.  *)
(*                                                                         *)
(* Numbers.  A float is a pair <<n, d>> of integers:                       *)
(*   <<n, d>> with d > 0   the rational n/d in lowest terms,               *)
(*   <<0, 0>>              NaN,                                            *)
(*   <<1, 0>>, <<-1, 0>>   +inf and -inf,                                  *)
(*   <<0, -1>>             the IEEE negative zero (its sign is observable  *)
(*                         by the byte-wise comparison of build_grid).     *)
(* Arithmetic is exact: rounding errors of the binary representation are   *)
(* not modelled.  A square root is taken only of perfect squares; the      *)
(* inputs are chosen accordingly.                                          *)
(*                                                                         *)
(* Python's None is the empty tuple; an array is a sequence of floats, a   *)
(* matrix a sequence of rows.                                              *)
(*                                                                         *)
(* Each group of operations has its own specification over the shared      *)
(* variables; the variables a specification does not use stay None.        *)
(***************************************************************************)
EXTENDS Integers, Sequences, FiniteSets, TLC

VARIABLES
    \* ---- ExtinctionVector instance (src/pnicer.py 856-972)
    ev_extvec,            \* self.extvec
    ev_is_ndarray,        \* whether self.extvec is a numpy array (else a list)
    ev_rotmatrix,         \* self._rotmatrix
    ev_extinction_rot,    \* self._extinction_rot
    ev_extinction_norm,   \* self._extinction_norm
    ev_last,              \* the property accessed last
    ev_returned,          \* value returned by the last property access
    ev_raised,            \* exception raised by the last property access
    \* ---- a constructor call DataBase.__init__ (src/pnicer.py 24-93)
    init_args,            \* the arguments of the call
    init_pc,              \* "call" before, "done" after the call
    init_obj,             \* the instance the call yields (None if it raised)
    init_raised,          \* the exception the call raised
    \* ---- a call of DataBase._pnicer_combinations (src/pnicer.py 260-307)
    comb_pc,              \* "loop" in the loop over comb, "done" after return
    comb_n_data,          \* self.n_data
    comb_n_pairs,         \* number of (science, control) pairs in comb
    comb_norm_sign,       \* sign of the combinations' extinction_norm
    comb_inputs,          \* per pair of comb: the names and features of sc, the features of cc
    names,                \* the list names
    combination_names,    \* self._combination_names
    all_ext,              \* the list all_ext
    all_exterr,           \* the list all_exterr
    ext_combinations,     \* self._ext_combinations
    exterr_combinations,  \* self._exterr_combinations
    n_combinations,       \* self._n_combinations
    ext_selected,         \* ext after line 302, before the error cut
    exterr_selected,      \* exterr after line 303, before the error cut
    extinction,           \* the returned Extinction: [extinction, error]
    \* ---- a DataBase instance and a method called on it (src/pnicer.py 126-177)
    science,              \* the instance (self)
    db_last,              \* the method called last: "rotate", "all_combinations"
    db_returned,          \* the value it returned (None if it raised)
    db_raised,            \* the exception it raised
    \* ---- a call of DataBase._pnicer_single on it (src/pnicer.py 180-257)
    single_control,       \* the argument control
    single_ext,           \* the local ext of line 245
    single_ext_err,       \* the local ext_err of line 246
    \* ---- a call of DataBase.build_grid (src/pnicer.py 109-123)
    grid_data,            \* the argument data, as the sequence of its points
    grid_precision,       \* the argument precision
    grid_pc,              \* "call" before, "done" after the call
    grid_returned,        \* the points of the returned grid
    \* ---- a call of Magnitudes.pnicer or Colors.pnicer (src/pnicer.py 728-743, 841-851)
    pn_science,           \* self: [cls, n_features]
    pn_control,           \* the argument control: [cls, n_features]
    pn_use_color,         \* the argument use_color
    pn_pc,                \* "call", "loop" in _pnicer_combinations' loop, "done"
    pn_pairs,             \* the number of pairs zip() yields
    pn_comb,              \* the pairs of zip(): the feature indices of sc and of cc
    pn_kde_calls,         \* the density evaluations (mp_kde calls) made so far
    pn_diagnostics,       \* self._n_combinations once stored, None before
    pn_returned,          \* "Extinction" once returned, None before
    pn_raised,            \* the exception the call raised
    \* ---- a call of get_extinction_pixel (src/pnicer.py 1176-1269)
    px_xgrid,             \* xgrid, a longitude in degrees (ygrid is 0)
    px_xdata,             \* xdata, the sources' longitudes (ydata is all 0)
    px_ext,               \* ext
    px_ext_err,           \* ext_err
    px_bandwidth,         \* bandwidth, in degrees
    px_method,            \* method
    px_nicest,            \* nicest
    px_strict_index,      \* numpy rejects a boolean index of the wrong length
    px_pc,                \* "call" before, "done" after the call
    px_returned,          \* the returned triple (None if it raised)
    px_raised,            \* the exception the call raised
    \* ---- a parallel invocation: mp_kde (src/pnicer.py 1134-1171) or
    \* ---- Extinction.build_map (1001-1031)
    pool_kind,            \* "mp_kde", "build_map" or "ExtinctionMap"
    pool_pc,              \* "call", "running" inside starmap/map, "done"
    pool_tasks,           \* the submitted units, in submission order
    pool_results,         \* per unit: None while it runs, then [exc, val]
    pool_returned,        \* the value the invocation returned (None if it raised)
    pool_raised,          \* the exception the invocation raised
    kde_raw,              \* exp(score_samples) of every grid point, in grid order
    kde_cpu_count,        \* multiprocessing.cpu_count()
    kde_absolute,         \* the argument absolute
    kde_sampling,         \* the argument sampling (0 for None)
    kde_n_data,           \* data.shape[0]
    sk_empty_raises,      \* scikit-learn rejects an array of 0 samples
    map_pixels,           \* grid_lon.ravel(): the longitude of every pixel
    map_shape,            \* grid_lon.shape
    map_args,             \* ext, ext_err, num of a direct ExtinctionMap(...) call
    map_db,               \* self.db.lon, self.extinction, self.error
    map_bandwidth,        \* the argument bandwidth
    map_method,           \* the argument method
    map_nicest,           \* the argument nicest
    map_strict_index,     \* numpy rejects a boolean index of the wrong length
    \* ---- a call of Magnitudes.nicer (src/pnicer.py 747-819)
    nc_features,          \* self.features: one array of magnitudes per band
    nc_control,           \* control: whether it is a DataBase, and its features
    nc_b,                 \* the weight the covariances give every colour (equ. 12)
    nc_pc,                \* "call" or "done"
    nc_returned,          \* the extinction of the returned Extinction instance
    nc_raised,            \* the exception the call raised
    \* ---- the density estimate of DataBase._pnicer_single (src/pnicer.py
    \* ---- 194-246), for data of two features
    sg_science_rot,       \* science_rot.features: reddening and transverse axis
    sg_control_rot,       \* control_rot.features
    sg_bin,               \* bin_grid = bin_ext
    sg_norm,              \* self.extvec.extinction_norm
    sg_pc,                \* "call" or "done"
    sg_grid_data,         \* the transverse grid points
    sg_grid_ext,          \* the grid along the reddening axis
    sg_dens_vectors,      \* per transverse grid point, the densities along grid_ext
    sg_grid_mean,         \* per transverse grid point
    sg_grid_std_sq,       \* per transverse grid point, the square of grid_std
    sg_indices,           \* per source, its nearest transverse grid point
    sg_ext,               \* ext
    sg_ext_err_sq,        \* the squares of ext_err
    sg_raised,            \* the exception the call raised
    \* ---- the numpy build
    np_empty_raises       \* numpy.percentile raises on an empty selection

ev_vars == <<ev_extvec, ev_is_ndarray, ev_rotmatrix, ev_extinction_rot,
             ev_extinction_norm, ev_last, ev_returned, ev_raised>>
init_vars == <<init_args, init_pc, init_obj, init_raised>>

comb_vars == <<comb_pc, comb_n_data, comb_n_pairs, comb_norm_sign, comb_inputs, names,
               combination_names, all_ext,
               all_exterr, ext_combinations, exterr_combinations, n_combinations,
               ext_selected, exterr_selected, extinction>>

db_vars == <<science, db_last, db_returned, db_raised>>

single_vars == <<single_control, single_ext, single_ext_err>>

grid_vars == <<grid_data, grid_precision, grid_pc, grid_returned>>

pn_vars == <<pn_science, pn_control, pn_use_color, pn_pc, pn_pairs, pn_comb, pn_kde_calls,
             pn_diagnostics, pn_returned, pn_raised>>

px_vars == <<px_xgrid, px_xdata, px_ext, px_ext_err, px_bandwidth, px_method,
             px_nicest, px_strict_index, px_pc, px_returned, px_raised>>

pool_vars == <<pool_kind, pool_pc, pool_tasks, pool_results, pool_returned, pool_raised,
               kde_raw, kde_cpu_count, kde_absolute, kde_sampling, kde_n_data,
               sk_empty_raises, map_pixels, map_shape, map_args, map_db, map_bandwidth,
               map_method, map_nicest, map_strict_index>>

nc_vars == <<nc_features, nc_control, nc_b, nc_pc, nc_returned, nc_raised>>

sg_vars == <<sg_science_rot, sg_control_rot, sg_bin, sg_norm, sg_pc, sg_grid_data,
             sg_grid_ext, sg_dens_vectors, sg_grid_mean, sg_grid_std_sq, sg_indices,
             sg_ext, sg_ext_err_sq, sg_raised>>

vars == <<ev_vars, init_vars, comb_vars, db_vars, single_vars, grid_vars, pn_vars, px_vars, pool_vars, nc_vars, sg_vars, np_empty_raises>>

\* ------------------------------------------------------------------------
\* Floats

None == <<>>
NaN == <<0, 0>>
Inf == <<1, 0>>
NegInf == <<-1, 0>>
NegZero == <<0, -1>>

NoError == "none"

Abs(n) == IF n < 0 THEN -n ELSE n
Sign(n) == IF n < 0 THEN -1 ELSE IF n > 0 THEN 1 ELSE 0

RECURSIVE Gcd(_, _)
Gcd(a, b) == IF b = 0 THEN a ELSE Gcd(b, a % b)

\* the float n/d, d # 0, in lowest terms with a positive denominator
Rat(n, d) ==
    LET g == Gcd(Abs(n), Abs(d))
    IN  <<(Sign(d) * n) \div g, Abs(d) \div g>>

Num(n) == <<n, 1>>

\* numpy.isfinite / numpy.isnan
IsFinite(x) == x[2] > 0 \/ x = NegZero
IsNaN(x) == x = NaN

\* the numerical value of a finite float (negative zero is zero)
Val(x) == IF x = NegZero THEN <<0, 1>> ELSE x

\* arithmetic on finite floats and NaN (NaN propagates)
FAdd(x, y) ==
    IF IsNaN(x) \/ IsNaN(y) THEN NaN
    ELSE LET a == Val(x)
             b == Val(y)
             g == Gcd(a[2], b[2])
         IN  Rat(a[1] * (b[2] \div g) + b[1] * (a[2] \div g), (a[2] \div g) * b[2])

FNeg(x) == IF IsNaN(x) THEN NaN ELSE Rat(-Val(x)[1], Val(x)[2])

FSub(x, y) == FAdd(x, FNeg(y))

FMul(x, y) ==
    IF IsNaN(x) \/ IsNaN(y) THEN NaN
    ELSE LET a == Val(x)
             b == Val(y)
             g == Gcd(Abs(a[1]), b[2])
             h == Gcd(Abs(b[1]), a[2])
         IN  Rat((a[1] \div g) * (b[1] \div h), (a[2] \div h) * (b[2] \div g))

\* x < y, x == y as numpy evaluates them on finite floats: False for NaN
FLt(x, y) ==
    /\ IsFinite(x) /\ IsFinite(y)
    /\ Val(x)[1] * Val(y)[2] < Val(y)[1] * Val(x)[2]

FEq(x, y) == IsFinite(x) /\ IsFinite(y) /\ Val(x) = Val(y)

\* the integer square root of a perfect square
ISqrt(n) == CHOOSE r \in 0..n : r * r = n

IsSquare(n) == \E r \in 0..n : r * r = n

Range(s) == {s[i] : i \in DOMAIN s}

\* ------------------------------------------------------------------------
\* Vectors and matrices (numpy.outer, numpy.identity, ndarray.dot)

RECURSIVE FSum(_)
FSum(s) == IF s = <<>> THEN Num(0) ELSE FAdd(Head(s), FSum(Tail(s)))

Outer(u, v) == [i \in DOMAIN u |-> [j \in DOMAIN v |-> FMul(u[i], v[j])]]

Identity(n) == [i \in 1..n |-> [j \in 1..n |-> IF i = j THEN Num(1) ELSE Num(0)]]

MatAdd(a, b) == [i \in DOMAIN a |-> [j \in DOMAIN a[i] |-> FAdd(a[i][j], b[i][j])]]

MatSub(a, b) == [i \in DOMAIN a |-> [j \in DOMAIN a[i] |-> FSub(a[i][j], b[i][j])]]

MatScale(c, a) == [i \in DOMAIN a |-> [j \in DOMAIN a[i] |-> FMul(c, a[i][j])]]

\* matrix . vector
DotVec(m, v) == [i \in DOMAIN m |-> FSum([j \in DOMAIN v |-> FMul(m[i][j], v[j])])]

\* matrix . matrix
DotMat(a, b) ==
    [i \in DOMAIN a |-> [j \in DOMAIN b[1] |->
        FSum([k \in DOMAIN b |-> FMul(a[i][k], b[k][j])])]]

Transpose(m) == [j \in DOMAIN m[1] |-> [i \in DOMAIN m |-> m[i][j]]]

\* ------------------------------------------------------------------------
\* ExtinctionVector (src/pnicer.py 856-972)

\* ExtinctionVector.unit_vectors, 0-based index l
UnitVector(n_dimensions, l) ==
    [i \in 1..n_dimensions |-> IF i = l + 1 THEN Num(1) ELSE Num(0)]

\* <<cos, sin>> of numpy.arctan(b / a) for finite a # 0:
\* cos = 1 / sqrt(1 + t^2), sin = t / sqrt(1 + t^2) with t = b / a
CosSinArctan(a, b) ==
    LET r == ISqrt(a[1] * a[1] * b[2] * b[2] + b[1] * b[1] * a[2] * a[2])
    IN  <<Rat(Abs(a[1]) * b[2], r), Rat(Sign(a[1]) * b[1] * a[2], r)>>

\* <<cos, sin>> of the rotation angle numpy.arctan(b / a) where b / a is a
\* numpy division: x / 0 is +-inf (angle +-pi/2), 0 / 0 is NaN
CosSinAngle(a, b) ==
    IF IsNaN(a) \/ IsNaN(b) THEN <<NaN, NaN>>
    ELSE IF Val(a)[1] # 0 THEN CosSinArctan(Val(a), Val(b))
    ELSE IF Val(b)[1] = 0 THEN <<NaN, NaN>>
    ELSE <<Num(0), Num(Sign(Val(b)[1]))>>

\* lines 910-912: the elementary rotation in the plane of axis 0 and axis n+1
ElementaryRotation(cs, n, n_dimensions) ==
    LET uv0 == UnitVector(n_dimensions, 0)
        uvn == UnitVector(n_dimensions, n + 1)
        v   == MatAdd(Outer(uv0, uv0), Outer(uvn, uvn))
        w   == MatSub(Outer(uv0, uvn), Outer(uvn, uv0))
    IN  MatAdd(MatAdd(MatScale(FSub(cs[1], Num(1)), v), MatScale(cs[2], w)),
               Identity(n_dimensions))

\* lines 903-917: the loop over all but the first component; vec is vector
\* for n = 0 and vector_rot afterwards, ms the list rotmatrices
RECURSIVE RotationLoop(_, _, _, _)
RotationLoop(vec, n, n_dimensions, ms) ==
    IF n >= n_dimensions - 1 THEN ms
    ELSE LET m == ElementaryRotation(CosSinAngle(vec[1], vec[n + 2]), n, n_dimensions)
         IN  RotationLoop(DotVec(m, vec), n + 1, n_dimensions, Append(ms, m))

\* lines 920-922: rotmatrix = rotmatrices[-1], then rotmatrix.dot(rotmatrices[n])
\* for n = len - 2 down to 0 (k is n + 1, the 1-based index)
RECURSIVE CombineRotations(_, _, _)
CombineRotations(acc, ms, k) ==
    IF k = 0 THEN acc ELSE CombineRotations(DotMat(acc, ms[k]), ms, k - 1)

\* ExtinctionVector.get_rotmatrix: [exc, val].  The ValueError of line 893 is
\* constructed but not raised; rotmatrices[-1] of an empty list raises
\* IndexError.  A list holds Python floats, whose division by zero raises.
get_rotmatrix(vector, is_ndarray) ==
    LET n_dimensions == Len(vector)
        ms == RotationLoop(vector, 0, n_dimensions, <<>>)
    IN  IF n_dimensions < 2
        THEN [exc |-> "IndexError", val |-> None]
        ELSE IF ~is_ndarray /\ Val(vector[1])[1] = 0
        THEN [exc |-> "ZeroDivisionError", val |-> None]
        ELSE [exc |-> NoError, val |-> CombineRotations(ms[Len(ms)], ms, Len(ms) - 1)]

\* the three cached properties; each returns [exc, val] and the new fields
\* rotmatrix (929-941)
RotmatrixProperty(field, vector, is_ndarray) ==
    IF field # None THEN [exc |-> NoError, val |-> field]
    ELSE get_rotmatrix(vector, is_ndarray)

\* bounds of the model
MaxDim == 3
MaxCoef == 12

\* the partial norms sqrt(v1^2 + ... + vk^2) are integers, so that every
\* rotation angle has a rational sine and cosine
ExactlyRotatable(v) ==
    \A k \in 2..Len(v) :
        IsSquare(FSum([i \in 1..k |-> Num(v[i] * v[i])])[1])

ExtVecInputs ==
    {[i \in DOMAIN v |-> Num(v[i])] :
        v \in {u \in UNION {[1..n -> -MaxCoef..MaxCoef] : n \in 1..MaxDim} :
                 ExactlyRotatable(u)}}

\* the variables of the specifications not running
EvIdle ==
    /\ ev_extvec = None /\ ev_is_ndarray = FALSE /\ ev_rotmatrix = None
    /\ ev_extinction_rot = None /\ ev_extinction_norm = None
    /\ ev_last = "idle" /\ ev_returned = None /\ ev_raised = NoError

InitIdle ==
    /\ init_args = None /\ init_pc = "idle" /\ init_obj = None
    /\ init_raised = NoError

CombIdle ==
    /\ comb_pc = "idle" /\ comb_n_data = 0 /\ comb_n_pairs = 0 /\ comb_norm_sign = 0
    /\ comb_inputs = None /\ names = None /\ combination_names = None
    /\ all_ext = None /\ all_exterr = None /\ ext_combinations = None
    /\ exterr_combinations = None /\ n_combinations = 0
    /\ ext_selected = None /\ exterr_selected = None /\ extinction = None

DbIdle ==
    /\ science = None /\ db_last = "idle" /\ db_returned = None /\ db_raised = NoError

SingleIdle ==
    /\ single_control = None /\ single_ext = None /\ single_ext_err = None

GridIdle ==
    /\ grid_data = None /\ grid_precision = None /\ grid_pc = "idle"
    /\ grid_returned = None

PnIdle ==
    /\ pn_science = None /\ pn_control = None /\ pn_use_color = FALSE
    /\ pn_pc = "idle" /\ pn_pairs = 0 /\ pn_comb = None /\ pn_kde_calls = 0
    /\ pn_diagnostics = None /\ pn_returned = None /\ pn_raised = NoError

PxIdle ==
    /\ px_xgrid = 0 /\ px_xdata = None /\ px_ext = None /\ px_ext_err = None
    /\ px_bandwidth = 0 /\ px_method = "" /\ px_nicest = FALSE
    /\ px_strict_index = FALSE /\ px_pc = "idle" /\ px_returned = None
    /\ px_raised = NoError

KdeIdle ==
    /\ kde_raw = None /\ kde_cpu_count = 0 /\ kde_absolute = FALSE
    /\ kde_sampling = 0 /\ kde_n_data = 0 /\ sk_empty_raises = FALSE

MapIdle ==
    /\ map_pixels = None /\ map_shape = None /\ map_args = None
    /\ map_db = None /\ map_bandwidth = 0
    /\ map_method = "" /\ map_nicest = FALSE /\ map_strict_index = FALSE

PoolIdle ==
    /\ pool_kind = "" /\ pool_pc = "idle" /\ pool_tasks = None
    /\ pool_results = None /\ pool_returned = None /\ pool_raised = NoError
    /\ KdeIdle /\ MapIdle

NcIdle ==
    /\ nc_features = None /\ nc_control = None /\ nc_b = None
    /\ nc_pc = "idle" /\ nc_returned = None /\ nc_raised = NoError

SgIdle ==
    /\ sg_science_rot = None /\ sg_control_rot = None /\ sg_bin = None /\ sg_norm = None
    /\ sg_pc = "idle" /\ sg_grid_data = None /\ sg_grid_ext = None
    /\ sg_dens_vectors = None /\ sg_grid_mean = None /\ sg_grid_std_sq = None
    /\ sg_indices = None /\ sg_ext = None /\ sg_ext_err_sq = None
    /\ sg_raised = NoError

InitVec ==
    /\ SgIdle
    /\ NcIdle
    /\ PoolIdle
    /\ PxIdle
    /\ PnIdle
    /\ SingleIdle /\ GridIdle
    /\ InitIdle /\ CombIdle /\ DbIdle
    /\ np_empty_raises = FALSE
    /\ ev_extvec \in ExtVecInputs
    /\ ev_is_ndarray \in BOOLEAN
    /\ ev_rotmatrix = None
    /\ ev_extinction_rot = None
    /\ ev_extinction_norm = None
    /\ ev_last = "init"
    /\ ev_returned = None
    /\ ev_raised = NoError

\* property rotmatrix (929-941)
Rotmatrix ==
    LET r == RotmatrixProperty(ev_rotmatrix, ev_extvec, ev_is_ndarray)
    IN  /\ ev_last' = "rotmatrix"
        /\ ev_raised' = r.exc
        /\ ev_returned' = r.val
        /\ ev_rotmatrix' = IF r.exc = NoError THEN r.val ELSE ev_rotmatrix
        /\ UNCHANGED <<ev_extvec, ev_is_ndarray, ev_extinction_rot, ev_extinction_norm>>
        /\ UNCHANGED <<init_vars, comb_vars, db_vars, single_vars, grid_vars, pn_vars, px_vars, pool_vars, nc_vars, sg_vars, np_empty_raises>>

\* property extinction_rot (946-957): self.rotmatrix.dot(self.extvec)
ExtinctionRot ==
    LET m == RotmatrixProperty(ev_rotmatrix, ev_extvec, ev_is_ndarray)
        cached == ev_extinction_rot # None
    IN  /\ ev_last' = "extinction_rot"
        /\ IF cached
           THEN /\ ev_raised' = NoError
                /\ ev_returned' = ev_extinction_rot
                /\ UNCHANGED <<ev_rotmatrix, ev_extinction_rot>>
           ELSE /\ ev_raised' = m.exc
                /\ ev_rotmatrix' = IF m.exc = NoError THEN m.val ELSE ev_rotmatrix
                /\ ev_extinction_rot' =
                       IF m.exc = NoError THEN DotVec(m.val, ev_extvec) ELSE None
                /\ ev_returned' = ev_extinction_rot'
        /\ UNCHANGED <<ev_extvec, ev_is_ndarray, ev_extinction_norm>>
        /\ UNCHANGED <<init_vars, comb_vars, db_vars, single_vars, grid_vars, pn_vars, px_vars, pool_vars, nc_vars, sg_vars, np_empty_raises>>

\* line 971: the first component of the rotated vector
NormOfLast(rot) == rot[Len(rot)]

NormOf(rot) == rot[1]

\* property extinction_norm (962-972): self.extinction_rot[0]
ExtinctionNorm ==
    LET m == RotmatrixProperty(ev_rotmatrix, ev_extvec, ev_is_ndarray)
        rot == IF ev_extinction_rot # None THEN ev_extinction_rot
               ELSE IF m.exc = NoError THEN DotVec(m.val, ev_extvec) ELSE None
        exc == IF ev_extinction_rot # None THEN NoError ELSE m.exc
    IN  /\ ev_last' = "extinction_norm"
        /\ IF ev_extinction_norm # None
           THEN /\ ev_raised' = NoError
                /\ ev_returned' = ev_extinction_norm
                /\ UNCHANGED <<ev_rotmatrix, ev_extinction_rot, ev_extinction_norm>>
           ELSE /\ ev_raised' = exc
                /\ ev_rotmatrix' =
                       IF ev_extinction_rot = None /\ m.exc = NoError
                       THEN m.val ELSE ev_rotmatrix
                /\ ev_extinction_rot' = rot
                /\ ev_extinction_norm' = IF exc = NoError THEN NormOf(rot) ELSE None
                /\ ev_returned' = ev_extinction_norm'
        /\ UNCHANGED <<ev_extvec, ev_is_ndarray>>
        /\ UNCHANGED <<init_vars, comb_vars, db_vars, single_vars, grid_vars, pn_vars, px_vars, pool_vars, nc_vars, sg_vars, np_empty_raises>>

NextVec == Rotmatrix \/ ExtinctionRot \/ ExtinctionNorm

SpecVec == InitVec /\ [][NextVec]_vars

\* m . m^T is the identity
Orthogonal(m) == DotMat(m, Transpose(m)) = Identity(Len(m))

\* m . v has zeros in every component but the first
ZeroesAllButFirst(m, v) == \A i \in 2..Len(v) : FEq(DotVec(m, v)[i], Num(0))

\* C9: for every extinction vector of dimension >= 2, get_rotmatrix returns a
\* matrix that is orthogonal and that, applied to the vector, leaves every
\* component except the first equal to zero.
C9_RotmatrixOrthogonalAndAligning ==
    (ev_last = "rotmatrix" /\ Len(ev_extvec) >= 2) =>
        /\ ev_raised = NoError
        /\ Orthogonal(ev_returned)
        /\ ZeroesAllButFirst(ev_returned, ev_extvec)

\* a property access that finds its value stored returns and keeps it
KeepsFirst(stored, name) ==
    stored # None =>
        /\ stored' = stored
        /\ ev_last' = name => (ev_returned' = stored /\ ev_raised' = NoError)

\* C22: once the rotation matrix, the rotated vector or the normalization
\* scalar has been computed, every later access of any of the three
\* properties leaves it unchanged and an access of it returns that first
\* value; the scalar is the first component of the rotated vector
C22_ComputedOnceAndNormIsFirstComponent ==
    [][/\ KeepsFirst(ev_rotmatrix, "rotmatrix")
       /\ KeepsFirst(ev_extinction_rot, "extinction_rot")
       /\ KeepsFirst(ev_extinction_norm, "extinction_norm")
       /\ ev_extinction_norm' # None =>
            (ev_extinction_rot' # None /\ ev_extinction_norm' = ev_extinction_rot'[1])]_vars

\* the scalar was accessed first, the matrix afterwards
C22_Witness ==
    /\ Len(ev_extvec) = 3
    /\ ev_extinction_norm # None /\ ev_extinction_rot # None
    /\ ev_extinction_norm = ev_extinction_rot[1]
    /\ ev_extinction_norm # ev_extinction_rot[3]
    /\ ev_last = "rotmatrix" /\ ev_returned = ev_rotmatrix

\* ------------------------------------------------------------------------
\* DataBase.__init__ (src/pnicer.py 24-93), shared by Magnitudes and Colors

\* "Mag1", "Mag2", ... (line 51)
DefaultName(idx) ==
    CASE idx = 1 -> "Mag1" [] idx = 2 -> "Mag2" [] idx = 3 -> "Mag3"
      [] idx = 4 -> "Mag4" [] OTHER -> "Mag5"

\* numpy.isfinite(m) & numpy.isfinite(e) for two arrays of one size, or of
\* which one has size 1 and is broadcast (line 87)
FeatureMask(m, e) ==
    LET size == IF Len(m) >= Len(e) THEN Len(m) ELSE Len(e)
    IN  [i \in 1..size |->
            /\ IsFinite(IF Len(m) = 1 THEN m[1] ELSE m[i])
            /\ IsFinite(IF Len(e) = 1 THEN e[1] ELSE e[i])]

Broadcastable(m, e) == Len(m) = Len(e) \/ Len(m) = 1 \/ Len(e) = 1

\* line 65: there must be at least two features
TooFewFeaturesOffByOne(n_features) == n_features < 1

TooFewFeatures(n_features) == n_features < 2

\* the argument record of a constructor call
\*   cls            "DataBase", "Magnitudes" or "Colors"
\*   mag, err       the lists of arrays; mag_is_list, err_is_list: their type
\*   extvec         the extinction components; ext_is_ndarray: its type
\*   lon, lat       the coordinates, given when has_lon, has_lat
\*   names          the feature names, given when has_names
\* empty_raises: whether numpy.percentile raises on an empty selection (it
\* does or returns NaN depending on the numpy release)
DataBaseInit(a, empty_raises) ==
    LET features == a.mag
        features_err == a.err
        n_features == Len(a.mag)
        features_names == IF a.has_names THEN a.names
                          ELSE [idx \in 1..n_features |-> DefaultName(idx)]
        masks == [f \in 1..n_features |-> FeatureMask(features[f], features_err[f])]
        fail(e) == [exc |-> e, val |-> None]
    IN  IF Len(a.extvec) # n_features THEN fail("ValueError")
        ELSE IF ~(a.mag_is_list /\ a.err_is_list) THEN fail("TypeError")
        ELSE IF TooFewFeatures(n_features) THEN fail("ValueError")
        ELSE IF Cardinality({Len(features), Len(features_err), Len(features_names)}) # 1
        THEN fail("ValueError")
        ELSE IF Cardinality({Len(features[f]) : f \in 1..n_features}) # 1
        THEN fail("ValueError")
        ELSE IF (a.has_lon \/ a.has_lat) /\ ~(a.has_lon /\ a.has_lat)
        THEN fail("TypeError")
        ELSE IF a.has_lon /\ (Len(a.lon) # Len(a.lat) \/ Len(a.lon) # Len(features[1]))
        THEN fail("ValueError")
        ELSE IF \E f \in 1..n_features : ~Broadcastable(features[f], features_err[f])
        THEN fail("ValueError")
        ELSE IF \E f \in 1..n_features : Len(masks[f]) # Len(features[f])
        THEN fail("IndexError")
        ELSE IF empty_raises /\ \E f \in 1..n_features : \A i \in DOMAIN masks[f] : ~masks[f][i]
        THEN fail("IndexError")
        ELSE [exc |-> NoError,
              val |-> [cls |-> a.cls,
                       features |-> features,
                       features_err |-> features_err,
                       has_coords |-> a.has_lon,
                       lon |-> IF a.has_lon THEN a.lon ELSE <<>>,
                       lat |-> IF a.has_lat THEN a.lat ELSE <<>>,
                       features_names |-> features_names,
                       n_features |-> n_features,
                       extvec |-> a.extvec,
                       ext_is_ndarray |-> a.ext_is_ndarray,
                       n_data |-> Len(features[1]),
                       features_masks |-> masks]]


\* bound of the model: the longest list passed to a constructor
MaxListLen == 3

\* lists of up to n arrays, each of size 1 or 2
ArrayLists(n) ==
    UNION {[1..k -> {<<Num(1)>>, <<Num(1), Num(2)>>}] : k \in 0..n}

NameLists(n) == {[idx \in 1..k |-> DefaultName(idx)] : k \in 0..n}

ExtVecs(n) == {[idx \in 1..k |-> Num(idx)] : k \in 0..n}

\* a call: any lists, extinction vector and names; no coordinates,
\* longitudes only, or both coordinates of size 1
InitNew ==
    /\ SgIdle
    /\ NcIdle
    /\ PoolIdle
    /\ PxIdle
    /\ PnIdle
    /\ SingleIdle /\ GridIdle
    /\ EvIdle /\ CombIdle /\ DbIdle
    /\ np_empty_raises = FALSE
    /\ \E cls \in {"DataBase", "Magnitudes", "Colors"},
          m \in ArrayLists(MaxListLen), e \in ArrayLists(MaxListLen),
          v \in ExtVecs(MaxListLen), nm \in NameLists(MaxListLen), hn \in BOOLEAN,
          t \in {<<TRUE, TRUE>>, <<FALSE, TRUE>>, <<TRUE, FALSE>>},
          c \in {<<FALSE, FALSE>>, <<TRUE, FALSE>>, <<TRUE, TRUE>>} :
            init_args =
                [cls |-> cls, mag |-> m, err |-> e, extvec |-> v,
                 ext_is_ndarray |-> FALSE,
                 has_names |-> hn, names |-> IF hn THEN nm ELSE <<>>,
                 mag_is_list |-> t[1], err_is_list |-> t[2],
                 has_lon |-> c[1], has_lat |-> c[2],
                 lon |-> IF c[1] THEN <<Num(0)>> ELSE <<>>,
                 lat |-> IF c[2] THEN <<Num(0)>> ELSE <<>>]
    /\ init_pc = "call"
    /\ init_obj = None
    /\ init_raised = NoError

\* DataBase(...), Magnitudes(...) or Colors(...): the subclasses only call the
\* parent's __init__ (666, 838)
New ==
    /\ init_pc = "call"
    /\ LET r == DataBaseInit(init_args, np_empty_raises)
       IN  /\ init_obj' = r.val
           /\ init_raised' = r.exc
    /\ init_pc' = "done"
    /\ UNCHANGED <<init_args, ev_vars, comb_vars, db_vars, single_vars, grid_vars, pn_vars, px_vars, pool_vars, nc_vars, sg_vars, np_empty_raises>>

NextNew == New

SpecNew == InitNew /\ [][NextNew]_vars


\* C10: construction fails with an error and yields no instance whenever there
\* are fewer than 2 features, the extinction vector's dimension differs from
\* the number of features, or the value, error and name lists differ in
\* length; every instance that exists has n_features >= 2, an extinction
\* vector of dimension n_features and as many error arrays and names.
C10_ConstructionValidates ==
    init_pc = "done" =>
        /\ (\/ Len(init_args.mag) < 2
            \/ Len(init_args.extvec) # Len(init_args.mag)
            \/ Len(init_args.err) # Len(init_args.mag)
            \/ (init_args.has_names /\ Len(init_args.names) # Len(init_args.mag)))
           => (init_raised # NoError /\ init_obj = None)
        /\ init_raised = NoError =>
            /\ init_obj.n_features >= 2
            /\ init_obj.n_features = Len(init_obj.features)
            /\ Len(init_obj.extvec) = init_obj.n_features
            /\ Len(init_obj.features_err) = init_obj.n_features
            /\ Len(init_obj.features_names) = init_obj.n_features

\* a call with two value arrays, a two-dimensional extinction vector and
\* three error arrays has been rejected
C10_Witness ==
    /\ init_pc = "done"
    /\ Len(init_args.mag) = 2
    /\ Len(init_args.extvec) = 2
    /\ Len(init_args.err) = 3
    /\ init_args.mag_is_list /\ init_args.err_is_list
    /\ init_raised = "ValueError"
    /\ init_obj = None


\* ------------------------------------------------------------------------
\* DataBase._pnicer_combinations (src/pnicer.py 260-307)

\* bounds of the model
MaxData == 2
MaxComb == 2

\* program constants
SentinelFactor == 100
ErrorCut == 10

\* the standard deviations weighted_avg can report for a grid vector; the
\* error of a source is this divided by extinction_norm (232, 246)
StdValues == {Num(0), Num(1), Num(11)}

\* the extinction _pnicer_single computes for source i in the c-th pair: any
\* finite number; distinct per (c, i) so that a selection is recognisable
ExtOf(c, i) == Num(10 * c + i)

\* the (ext, ext_err) arrays _pnicer_single returns for the c-th pair, given
\* for every source NaN (masked out, or matched to a grid point without
\* density mass: both arrays NaN, 226-228, 249-255) or its std
SingleResult(c, std, sgn) ==
    [ext |-> [i \in DOMAIN std |-> IF IsNaN(std[i]) THEN NaN ELSE ExtOf(c, i)],
     err |-> [i \in DOMAIN std |-> IF IsNaN(std[i]) THEN NaN
                                    ELSE FMul(Num(sgn), std[i])]]

\* all entries of a two-dimensional array
Entries(a) == UNION {Range(a[c]) : c \in DOMAIN a}

FMax(S) == CHOOSE x \in S : \A y \in S : ~FLt(x, y)
FMin(S) == CHOOSE x \in S : \A y \in S : ~FLt(y, x)
Min(S) == CHOOSE x \in S : \A y \in S : x <= y

\* numpy.nanmax over the whole array: NaN when every entry is NaN
NanMax(a) ==
    LET fin == {x \in Entries(a) : IsFinite(x)}
    IN  IF fin = {} THEN NaN ELSE FMax(fin)

\* 100 * numpy.nanmax(all_exterr)
Sentinel(a) == FMul(Num(SentinelFactor), NanMax(a))

\* all_exterr[~numpy.isfinite(all_exterr)] = 100 * numpy.nanmax(all_exterr)
ReplaceNonFinite(a) ==
    [c \in DOMAIN a |-> [i \in DOMAIN a[c] |->
        IF IsFinite(a[c][i]) THEN a[c][i] ELSE Sentinel(a)]]

\* numpy.argmin(a, axis=0)[i]: the first NaN if the column holds one,
\* otherwise the first index of the minimum
ArgMin(a, i) ==
    LET nans == {c \in DOMAIN a : IsNaN(a[c][i])}
        m    == FMin({a[c][i] : c \in DOMAIN a})
    IN  IF nans # {} THEN Min(nans)
        ELSE Min({c \in DOMAIN a : FEq(a[c][i], m)})

\* exterr > 10 as numpy evaluates it: False for NaN
ExceedsCut(x) == FLt(Num(ErrorCut), x)

\* line 305: ext[exterr > 10] = exterr[exterr > 10] = numpy.nan
ErrorCutExtOnly(e, err) ==
    [extinction |-> [i \in DOMAIN e |-> IF ExceedsCut(err[i]) THEN NaN ELSE e[i]],
     error |-> err]

ApplyErrorCut(e, err) ==
    [extinction |-> [i \in DOMAIN e |-> IF ExceedsCut(err[i]) THEN NaN ELSE e[i]],
     error |-> [i \in DOMAIN e |-> IF ExceedsCut(err[i]) THEN NaN ELSE err[i]]]

\* line 289: "(" + ",".join(sc.features_names) + ")", as the list of the
\* pieces that are joined
RECURSIVE Join(_)
Join(features_names) ==
    IF Len(features_names) <= 1 THEN features_names
    ELSE <<Head(features_names), ",">> \o Join(Tail(features_names))

Label(features_names) == <<"(">> \o Join(features_names) \o <<")">>

\* lines 293, 295: all_ext.copy(), all_exterr.copy(): the saved rows are
\* arrays of their own, which the assignment of line 301 does not reach
CopyAliased(a) == ReplaceNonFinite(a)

Copy(a) == a

\* the pairs of comb: the c-th science combination has its own feature
\* names and arrays, and is paired with a control combination
BandNames == <<"J", "H", "K", "L", "M">>

PairInputs(n_pairs, n_data) ==
    [c \in 1..n_pairs |->
        [names |-> <<BandNames[c], BandNames[c + 1]>>,
         science |-> <<[i \in 1..n_data |-> Num(c + i)], [i \in 1..n_data |-> NaN]>>,
         control |-> <<<<Num(c)>>, <<Num(c + 1)>>>>]]

InitComb ==
    /\ SgIdle
    /\ NcIdle
    /\ PoolIdle
    /\ PxIdle
    /\ PnIdle
    /\ SingleIdle /\ GridIdle
    /\ EvIdle /\ InitIdle /\ DbIdle
    /\ np_empty_raises = FALSE
    /\ comb_pc = "loop"
    /\ comb_n_data \in 1..MaxData
    /\ comb_n_pairs \in 1..MaxComb
    /\ comb_norm_sign \in {1, -1}
    /\ comb_inputs = PairInputs(comb_n_pairs, comb_n_data)
    /\ names = <<>> /\ combination_names = None
    /\ all_ext = <<>> /\ all_exterr = <<>>
    /\ ext_combinations = None /\ exterr_combinations = None /\ n_combinations = 0
    /\ ext_selected = None /\ exterr_selected = None /\ extinction = None

\* lines 280-290: one pass of the loop over comb
LoopBody ==
    /\ comb_pc = "loop"
    /\ Len(all_ext) < comb_n_pairs
    /\ \E std \in [1..comb_n_data -> {NaN} \cup StdValues] :
        LET r == SingleResult(Len(all_ext) + 1, std, comb_norm_sign)
        IN  /\ all_ext' = Append(all_ext, r.ext)
            /\ all_exterr' = Append(all_exterr, r.err)
    /\ names' = Append(names, Label(comb_inputs[Len(all_ext) + 1].names))
    /\ UNCHANGED <<comb_pc, comb_n_data, comb_n_pairs, comb_norm_sign, comb_inputs,
                   combination_names,
                   ext_combinations, exterr_combinations, n_combinations,
                   ext_selected, exterr_selected, extinction>>
    /\ UNCHANGED <<ev_vars, init_vars, db_vars, single_vars, grid_vars, pn_vars, px_vars, pool_vars, nc_vars, sg_vars, np_empty_raises>>

\* lines 292-307: save the rows, select the minimum error, cut, return
SelectAndReturn ==
    /\ comb_pc = "loop"
    /\ Len(all_ext) = comb_n_pairs
    /\ ext_combinations' = Copy(all_ext)
    /\ exterr_combinations' = Copy(all_exterr)
    /\ combination_names' = names
    /\ n_combinations' = Len(all_ext)
    /\ all_exterr' = ReplaceNonFinite(all_exterr)
    /\ ext_selected' = [i \in 1..comb_n_data |-> all_ext[ArgMin(all_exterr', i)][i]]
    /\ exterr_selected' = [i \in 1..comb_n_data |-> all_exterr'[ArgMin(all_exterr', i)][i]]
    /\ extinction' = ApplyErrorCut(ext_selected', exterr_selected')
    /\ comb_pc' = "done"
    /\ UNCHANGED <<comb_n_data, comb_n_pairs, comb_norm_sign, comb_inputs, names, all_ext>>
    /\ UNCHANGED <<ev_vars, init_vars, db_vars, single_vars, grid_vars, pn_vars, px_vars, pool_vars, nc_vars, sg_vars, np_empty_raises>>

NextComb == LoopBody \/ SelectAndReturn

SpecComb == InitComb /\ [][NextComb]_vars


\* the combinations with a finite error for source i
FiniteCombinations(i) ==
    {c \in 1..n_combinations : IsFinite(exterr_combinations[c][i])}

\* C1: for every source that has a finite error in at least one combination,
\* the extinction and error reported before the error cut are those of a
\* combination whose error for that source is the smallest finite one.
C1_ReportsSmallestFiniteError ==
    comb_pc = "done" =>
        \A i \in 1..comb_n_data :
            FiniteCombinations(i) # {} =>
                \E c \in FiniteCombinations(i) :
                    /\ \A d \in FiniteCombinations(i) :
                           ~FLt(exterr_combinations[d][i], exterr_combinations[c][i])
                    /\ ext_selected[i] = ext_combinations[c][i]
                    /\ exterr_selected[i] = exterr_combinations[c][i]

\* C2: every source whose selected error exceeds 10 has both its extinction
\* and its error set to NaN in the result, and no source of the result
\* carries a finite error greater than 10.
C2_ErrorCutSetsBothNaN ==
    comb_pc = "done" =>
        \A i \in 1..comb_n_data :
            /\ ExceedsCut(exterr_selected[i]) =>
                   (IsNaN(extinction.extinction[i]) /\ IsNaN(extinction.error[i]))
            /\ ~ExceedsCut(extinction.error[i])

\* a source with a finite extinction and a selected error above 10 was cut,
\* while another source kept its finite error
C2_Witness ==
    /\ comb_pc = "done"
    /\ \E i \in 1..comb_n_data :
        /\ IsFinite(ext_selected[i])
        /\ ExceedsCut(exterr_selected[i])
        /\ IsNaN(extinction.extinction[i]) /\ IsNaN(extinction.error[i])
    /\ \E i \in 1..comb_n_data :
        /\ IsFinite(extinction.error[i]) /\ IsFinite(extinction.extinction[i])

\* C3: a combination whose error for a source is non-finite is never the one
\* selected for that source when another combination has a finite error for
\* it: the sentinel always loses the minimum-error selection.
C3_SentinelNeverSelected ==
    comb_pc = "done" =>
        \A i \in 1..comb_n_data :
            FiniteCombinations(i) # {} => ArgMin(all_exterr, i) \in FiniteCombinations(i)


\* C25: when _pnicer_combinations returns, the instance holds one
\* extinction row, one error row and one label per pair, in the order of the
\* loop, and the number of pairs; the saved error rows are the rows as
\* _pnicer_single returned them, non-finite entries included; the feature
\* arrays of the science and control combinations are never changed
C25_RetainsRowsAndLabels ==
    [][/\ comb_inputs' = comb_inputs
       /\ comb_pc' = "done" =>
            /\ n_combinations' = comb_n_pairs
            /\ Len(ext_combinations') = comb_n_pairs
            /\ Len(exterr_combinations') = comb_n_pairs
            /\ Len(combination_names') = comb_n_pairs
            /\ \A c \in 1..comb_n_pairs :
                /\ combination_names'[c] = Label(comb_inputs[c].names)
                /\ ext_combinations'[c] = all_ext[c]
                /\ exterr_combinations'[c] = all_exterr[c]
                /\ \A i \in 1..comb_n_data :
                    ~IsNaN(ext_combinations'[c][i]) => ext_combinations'[c][i] = ExtOf(c, i)]_vars

\* two pairs with different labels, and a NaN error that the sentinel
\* replaced in all_exterr but not in the saved rows
C25_Witness ==
    /\ comb_pc = "done"
    /\ n_combinations = 2
    /\ combination_names = <<<<"(", "J", ",", "H", ")">>, <<"(", "H", ",", "K", ")">>>>
    /\ \E i \in 1..comb_n_data :
        /\ IsNaN(exterr_combinations[1][i])
        /\ IsFinite(all_exterr[1][i])
        /\ IsFinite(exterr_combinations[2][i])

\* C27: in the returned Extinction, the extinction of a source is NaN
\* exactly when its error is NaN
C27_NaNExtinctionIffNaNError ==
    comb_pc = "done" =>
        \A i \in 1..comb_n_data :
            IsNaN(extinction.extinction[i]) <=> IsNaN(extinction.error[i])

\* ------------------------------------------------------------------------
\* DataBase.rotate and DataBase.all_combinations (src/pnicer.py 126-177)

\* a[mask]: the entries of a selected by a boolean mask, in order
RECURSIVE Compress(_, _)
Compress(a, mask) ==
    IF a = <<>> THEN <<>>
    ELSE IF Head(mask) THEN <<Head(a)>> \o Compress(Tail(a), Tail(mask))
    ELSE Compress(Tail(a), Tail(mask))

\* line 133: numpy.prod(numpy.vstack(self.features_masks), axis=0, dtype=bool)
CombinedMaskAnyFeature(obj) ==
    [i \in 1..obj.n_data |-> \E f \in 1..obj.n_features : obj.features_masks[f][i]]

CombinedMask(obj) ==
    [i \in 1..obj.n_data |-> \A f \in 1..obj.n_features : obj.features_masks[f][i]]

\* line 135, 155: the errors of the masked rows, one array per feature
RotatedErrWithMatrix(obj, mask, m) ==
    LET err == [f \in 1..obj.n_features |-> Compress(obj.features_err[f], mask)]
    IN  [f \in 1..obj.n_features |->
            [k \in DOMAIN err[1] |->
                DotVec(m, [g \in 1..obj.n_features |-> err[g][k]])[f]]]

RotatedErr(obj, mask, m) ==
    [f \in 1..obj.n_features |-> Compress(obj.features_err[f], mask)]

\* lines 134, 138, 154: rotmatrix.dot(data), one array per feature
RotatedData(obj, mask, m) ==
    LET data == [f \in 1..obj.n_features |-> Compress(obj.features[f], mask)]
    IN  [f \in 1..obj.n_features |->
            [k \in DOMAIN data[1] |->
                DotVec(m, [g \in 1..obj.n_features |-> data[g][k]])[f]]]

\* DataBase.rotate: [exc, val]; the extinction vector's properties are
\* evaluated on first use
rotate(obj, empty_raises) ==
    LET mask == CombinedMask(obj)
        rm == get_rotmatrix(obj.extvec, obj.ext_is_ndarray)
    IN  IF rm.exc # NoError THEN [exc |-> rm.exc, val |-> None]
        ELSE DataBaseInit(
                [cls |-> obj.cls,
                 mag |-> RotatedData(obj, mask, rm.val),
                 err |-> RotatedErr(obj, mask, rm.val),
                 mag_is_list |-> TRUE, err_is_list |-> TRUE,
                 extvec |-> DotVec(rm.val, obj.extvec), ext_is_ndarray |-> TRUE,
                 has_lon |-> obj.has_coords, has_lat |-> obj.has_coords,
                 lon |-> IF obj.has_coords THEN Compress(obj.lon, mask) ELSE <<>>,
                 lat |-> IF obj.has_coords THEN Compress(obj.lat, mask) ELSE <<>>,
                 has_names |-> TRUE,
                 names |-> [f \in 1..obj.n_features |-> obj.features_names[f] \o "_rot"]],
                empty_raises)

\* itertools.combinations(range(lo, n), p): the p-tuples of increasing
\* indices in lexicographic order (0-based, as in the source)
RECURSIVE Combinations(_, _, _)
Combinations(lo, n, p) ==
    IF p = 0 THEN << <<>> >>
    ELSE IF lo >= n THEN <<>>
    ELSE [k \in 1..Len(Combinations(lo + 1, n, p - 1)) |->
             <<lo>> \o Combinations(lo + 1, n, p - 1)[k]]
         \o Combinations(lo + 1, n, p)

\* line 166: the combinations of sizes first..n_features, size by size
RECURSIVE AllSizes(_, _)
AllSizes(p, n) ==
    IF p > n THEN <<>> ELSE Combinations(0, n, p) \o AllSizes(p + 1, n)

AllCFromSizeOne(n_features) == AllSizes(1, n_features)

AllC(n_features) == AllSizes(2, n_features)

\* lines 171-175: the instance of one combination c
CombinationInstance(obj, c, empty_raises) ==
    DataBaseInit(
        [cls |-> obj.cls,
         mag |-> [k \in DOMAIN c |-> obj.features[c[k] + 1]],
         err |-> [k \in DOMAIN c |-> obj.features_err[c[k] + 1]],
         mag_is_list |-> TRUE, err_is_list |-> TRUE,
         extvec |-> [k \in DOMAIN c |-> obj.extvec[c[k] + 1]], ext_is_ndarray |-> FALSE,
         has_lon |-> obj.has_coords, has_lat |-> obj.has_coords,
         lon |-> obj.lon, lat |-> obj.lat,
         has_names |-> TRUE,
         names |-> [k \in DOMAIN c |-> obj.features_names[c[k] + 1]]],
        empty_raises)

\* DataBase.all_combinations: [exc, val], val the list combination_instances
all_combinations(obj, empty_raises) ==
    LET all_c == AllC(obj.n_features)
        made == [k \in DOMAIN all_c |-> CombinationInstance(obj, all_c[k], empty_raises)]
    IN  IF \E k \in DOMAIN made : made[k].exc # NoError
        THEN [exc |-> made[Min({k \in DOMAIN made : made[k].exc # NoError})].exc,
              val |-> None]
        ELSE [exc |-> NoError, val |-> [k \in DOMAIN made |-> made[k].val]]

\* the extinction vectors of the instances (lists of Python floats)
DataVectors ==
    {<<Num(3), Num(4)>>, <<Num(-4), Num(3)>>, <<Num(1), Num(0)>>,
     <<Num(3), Num(4), Num(12)>>, <<Num(3), Num(4), Num(12), Num(84)>>}

\* the catalogue entry of source i in feature f: finite unless the cell is
\* bad, and then a NaN value or an infinite error
FeatureValue(f, i, bad) ==
    IF <<f, i>> \in bad /\ (f + i) % 2 = 0 THEN NaN ELSE Num(3 * i + f)

FeatureError(f, i, bad) ==
    IF <<f, i>> \in bad /\ (f + i) % 2 = 1 THEN Inf ELSE Num(i + 2 * f)

\* bound of the model: the number of bad cells of a catalogue (they lie in
\* the first two features)
MaxBad == 2

\* the call that builds the instance
DataArgs(cls, v, n, bad, coords) ==
    [cls |-> cls,
     mag |-> [f \in DOMAIN v |-> [i \in 1..n |-> FeatureValue(f, i, bad)]],
     err |-> [f \in DOMAIN v |-> [i \in 1..n |-> FeatureError(f, i, bad)]],
     mag_is_list |-> TRUE, err_is_list |-> TRUE,
     extvec |-> v, ext_is_ndarray |-> FALSE,
     has_lon |-> coords, has_lat |-> coords,
     lon |-> IF coords THEN [i \in 1..n |-> Num(10 * i)] ELSE <<>>,
     lat |-> IF coords THEN [i \in 1..n |-> Num(-i)] ELSE <<>>,
     has_names |-> FALSE, names |-> <<>>]

InitData ==
    /\ SgIdle
    /\ NcIdle
    /\ PoolIdle
    /\ PxIdle
    /\ PnIdle
    /\ SingleIdle /\ GridIdle
    /\ EvIdle /\ InitIdle /\ CombIdle
    /\ np_empty_raises \in BOOLEAN
    /\ \E cls \in {"Magnitudes", "Colors"}, v \in DataVectors, n \in 1..MaxData,
          coords \in BOOLEAN :
        \E bad \in {b \in SUBSET ((1..2) \X (1..n)) : Cardinality(b) <= MaxBad} :
            \E r \in {DataBaseInit(DataArgs(cls, v, n, bad, coords), np_empty_raises)} :
                /\ r.exc = NoError
                /\ science = r.val
    /\ db_last = "new"
    /\ db_returned = None
    /\ db_raised = NoError

\* science.rotate()
Rotate ==
    /\ db_last = "new"
    /\ \E r \in {rotate(science, np_empty_raises)} :
        /\ db_returned' = r.val
        /\ db_raised' = r.exc
    /\ db_last' = "rotate"
    /\ UNCHANGED <<science, ev_vars, init_vars, comb_vars, single_vars, grid_vars, pn_vars, px_vars, pool_vars, nc_vars, sg_vars, np_empty_raises>>

\* science.all_combinations()
AllCombinations ==
    /\ db_last = "new"
    /\ \E r \in {all_combinations(science, np_empty_raises)} :
        /\ db_returned' = r.val
        /\ db_raised' = r.exc
    /\ db_last' = "all_combinations"
    /\ UNCHANGED <<science, ev_vars, init_vars, comb_vars, single_vars, grid_vars, pn_vars, px_vars, pool_vars, nc_vars, sg_vars, np_empty_raises>>


\* the sources whose value and error are finite in every feature
ValidSources(obj) ==
    {i \in 1..obj.n_data :
        \A f \in 1..obj.n_features :
            IsFinite(obj.features[f][i]) /\ IsFinite(obj.features_err[f][i])}

\* the k-th of them in catalogue order
NthValid(obj, k) ==
    CHOOSE i \in ValidSources(obj) : Cardinality({j \in ValidSources(obj) : j <= i}) = k

\* the values, or errors, of source i as a vector over the features
Row(arrays, i) == [f \in DOMAIN arrays |-> arrays[f][i]]

\* the rotation matrix of an instance's extinction vector
RotmatrixOf(obj) == get_rotmatrix(obj.extvec, obj.ext_is_ndarray).val

\* rot holds exactly the valid sources of obj in their order: the rotated
\* values and the coordinates of the k-th valid source at position k
HoldsValidRows(obj, rot) ==
    /\ rot.cls = obj.cls
    /\ rot.n_features = obj.n_features
    /\ rot.n_data = Cardinality(ValidSources(obj))
    /\ rot.has_coords = obj.has_coords
    /\ \A f \in 1..obj.n_features :
        /\ Len(rot.features[f]) = rot.n_data
        /\ Len(rot.features_err[f]) = rot.n_data
    /\ obj.has_coords => (Len(rot.lon) = rot.n_data /\ Len(rot.lat) = rot.n_data)
    /\ \A k \in 1..rot.n_data :
        /\ Row(rot.features, k) = DotVec(RotmatrixOf(obj), Row(obj.features, NthValid(obj, k)))
        /\ obj.has_coords =>
            /\ rot.lon[k] = obj.lon[NthValid(obj, k)]
            /\ rot.lat[k] = obj.lat[NthValid(obj, k)]

NthOf(S, j) == CHOOSE x \in S : Cardinality({y \in S : y <= x}) = j

\* inst is the instance of obj restricted to the features S, in index order
DerivedFrom(inst, obj, S) ==
    /\ inst.cls = obj.cls
    /\ inst.n_features = Cardinality(S)
    /\ inst.n_data = obj.n_data
    /\ inst.has_coords = obj.has_coords
    /\ inst.lon = obj.lon /\ inst.lat = obj.lat
    /\ Len(inst.features) = Cardinality(S)
    /\ \A j \in 1..Cardinality(S) :
        /\ inst.features[j] = obj.features[NthOf(S, j)]
        /\ inst.features_err[j] = obj.features_err[NthOf(S, j)]
        /\ inst.features_names[j] = obj.features_names[NthOf(S, j)]
        /\ inst.extvec[j] = obj.extvec[NthOf(S, j)]

\* C7: all_combinations() on an instance with n features returns exactly one
\* derived instance for every subset of size >= 2 of the feature indices
\* (2^n - n - 1 instances, no subset twice, indices in order); each takes the
\* values, errors, names and extinction-vector entries of exactly those
\* indices and has the n_data and coordinates of the base.
C7_OneInstancePerSubset ==
    db_last = "all_combinations" =>
        /\ db_raised = NoError
        /\ Len(db_returned) = 2 ^ science.n_features - science.n_features - 1
        /\ \A S \in SUBSET (1..science.n_features) :
            Cardinality(S) >= 2 =>
                Cardinality({k \in DOMAIN db_returned :
                                DerivedFrom(db_returned[k], science, S)}) = 1

\* all_combinations() has returned the 11 instances of a 4-feature instance
C7_Witness ==
    /\ db_last = "all_combinations" /\ db_raised = NoError
    /\ science.n_features = 4
    /\ Len(db_returned) = 11
    /\ db_returned[11].features = science.features


\* ------------------------------------------------------------------------
\* DataBase.round_partial and DataBase.build_grid (src/pnicer.py 98-123)

\* numpy.around: to the nearest integer, halves to the even one; a negative
\* number that rounds to zero gives -0.0
Around(x) ==
    IF ~IsFinite(x) \/ x = NegZero THEN x
    ELSE LET lo == x[1] \div x[2]
             r == x[1] % x[2]
             k == IF 2 * r < x[2] THEN lo
                  ELSE IF 2 * r > x[2] THEN lo + 1
                  ELSE IF lo % 2 = 0 THEN lo ELSE lo + 1
         IN  IF k = 0 /\ x[1] < 0 THEN NegZero ELSE Num(k)

\* x / precision and x * precision for a finite positive precision: the sign
\* of a zero is kept
DivByPrecision(x, precision) ==
    IF ~IsFinite(x) \/ x = NegZero THEN x
    ELSE Rat(x[1] * precision[2], x[2] * precision[1])

TimesPrecision(x, precision) ==
    IF ~IsFinite(x) \/ x = NegZero THEN x
    ELSE Rat(x[1] * precision[1], x[2] * precision[2])

\* line 106, on one number
round_partial(x, precision) ==
    TimesPrecision(Around(DivByPrecision(x, precision)), precision)

\* line 117, on one point (a column of data)
RoundPoint(point, precision) ==
    [c \in DOMAIN point |-> round_partial(point[c], precision)]

\* lines 117-123 on a set of points: numpy.unique on the void view keeps one
\* row per byte pattern, so 0.0 and -0.0 are different entries (two equal
\* floats of the model are the same bytes)
UniqueRounded(points, precision) == {RoundPoint(pt, precision) : pt \in points}

\* DataBase.build_grid: the points of the returned grid (numpy.unique orders
\* them by their bytes; the order is not modelled)
build_grid(data, precision) == UniqueRounded(Range(data), precision)

\* bound of the model: the number of points of the input
MaxPoints == 2

\* coordinates and pixel scales of the model
GridValues == {NegZero, Num(0), Rat(-3, 10), Rat(3, 10), Rat(-1, 2), Rat(3, 2)}

GridPrecisions == {Num(1), Rat(1, 2)}

GridPoints == GridValues \X GridValues

InitGrid ==
    /\ SgIdle
    /\ NcIdle
    /\ PoolIdle
    /\ PxIdle
    /\ PnIdle
    /\ EvIdle /\ InitIdle /\ CombIdle /\ DbIdle /\ SingleIdle
    /\ np_empty_raises = FALSE
    /\ \E n \in 1..MaxPoints : grid_data \in [1..n -> GridPoints]
    /\ grid_precision \in GridPrecisions
    /\ grid_pc = "call"
    /\ grid_returned = None

\* DataBase.build_grid(data, precision)
BuildGrid ==
    /\ grid_pc = "call"
    /\ grid_returned' = build_grid(grid_data, grid_precision)
    /\ grid_pc' = "done"
    /\ UNCHANGED <<grid_data, grid_precision, ev_vars, init_vars, comb_vars, db_vars,
                   single_vars, pn_vars, px_vars, pool_vars, nc_vars, sg_vars, np_empty_raises>>

NextGrid == BuildGrid

SpecGrid == InitGrid /\ [][NextGrid]_vars

\* two points are equal as numbers (numpy ==, so 0.0 equals -0.0)
SamePoint(p, q) == \A c \in DOMAIN p : FEq(p[c], q[c])

\* C8: for every input point set and positive precision, build_grid returns
\* points that are pairwise distinct after quantization at that precision,
\* every input point's quantized position appears in the output, and
\* build_grid applied to the output at the same precision returns the same
\* set of points.
C8_GridDistinctCoveringIdempotent ==
    grid_pc = "done" =>
        /\ \A p \in grid_returned, q \in grid_returned :
            p # q => ~SamePoint(RoundPoint(p, grid_precision), RoundPoint(q, grid_precision))
        /\ \A i \in DOMAIN grid_data :
            \E g \in grid_returned : SamePoint(g, RoundPoint(grid_data[i], grid_precision))
        /\ UniqueRounded(grid_returned, grid_precision) = grid_returned


\* ------------------------------------------------------------------------
\* DataBase._pnicer_single (src/pnicer.py 180-257)

\* numpy division of finite floats and NaN
FDiv(x, y) ==
    IF IsNaN(x) \/ IsNaN(y) THEN NaN
    ELSE IF Val(y)[1] # 0 THEN FMul(x, Rat(Val(y)[2], Val(y)[1]))
    ELSE IF Val(x)[1] = 0 THEN NaN
    ELSE IF Val(x)[1] > 0 THEN Inf ELSE NegInf

\* lines 222-231: what the density estimate gives for the grid vector nearest
\* to a source, <<grid_mean, b>>: NaN where the vector holds fewer than 3
\* stars, else the weighted average and standard deviation. The estimators
\* are scikit-learn's; the model takes any of these values for every source.
GridStats == {<<NaN, NaN>>, <<Num(0), Num(0)>>, <<Num(2), Num(5)>>}

\* line 245 and lines 231, 246 for one source: rot0 its first rotated feature
ExtValue(rot0, stat, norm) == FDiv(FSub(rot0, stat[1]), norm)

ExtErrValue(stat, norm) == FDiv(stat[2], norm)

\* lines 249-255: out = numpy.full(n_data, nan); out[mask] = values
ScatterFromFront(n_data, mask, values) ==
    [i \in 1..n_data |-> IF i <= Len(values) THEN values[i] ELSE NaN]

Scatter(n_data, mask, values) ==
    [i \in 1..n_data |->
        IF mask[i] THEN values[Cardinality({j \in 1..i : mask[j]})] ELSE NaN]

\* lines 191-207: the checks and the rotation, [exc, rot0, norm]; rot0 is
\* science_rot.features[0] and norm self.extvec.extinction_norm, the first
\* entry of the extinction_rot that rotate() handed to science_rot
single_rotated(obj, control, science_rot, control_rot) ==
    LET failed(exc) == [exc |-> exc, rot0 |-> None, norm |-> None]
    IN  IF obj.cls # control.cls THEN failed("TypeError")
        ELSE IF science_rot.exc # NoError THEN failed(science_rot.exc)
        ELSE IF control_rot.exc # NoError THEN failed(control_rot.exc)
        \* line 207: min() of an empty sequence
        ELSE IF science_rot.val.n_data = 0 THEN failed("ValueError")
        ELSE [exc |-> NoError, rot0 |-> science_rot.val.features[1],
              norm |-> science_rot.val.extvec[1]]

\* lines 245-257 with the estimates stats[k] for the k-th rotated source:
\* [ext, ext_err, out, outerr]
single_scattered(obj, rot0, norm, stats) ==
    LET ext == [k \in DOMAIN rot0 |-> ExtValue(rot0[k], stats[k], norm)]
        ext_err == [k \in DOMAIN rot0 |-> ExtErrValue(stats[k], norm)]
        mask == CombinedMask(obj)
    IN  [ext |-> ext, ext_err |-> ext_err,
         out |-> Scatter(obj.n_data, mask, ext),
         outerr |-> Scatter(obj.n_data, mask, ext_err)]

\* the control fields of the model: one source, all features finite, the
\* extinction vector of the science field
ControlFor(obj, cls) ==
    DataBaseInit(DataArgs(cls, obj.extvec, 1, {}, FALSE), FALSE).val

\* science._pnicer_single(control, sampling, kernel)
PnicerSingle ==
    /\ db_last = "new"
    /\ \E cls \in {"Magnitudes", "Colors"} :
        \E control \in {ControlFor(science, cls)} :
        \E science_rot \in {rotate(science, np_empty_raises)},
           control_rot \in {rotate(control, np_empty_raises)} :
        \E rotated \in {single_rotated(science, control, science_rot, control_rot)} :
            /\ single_control' = control
            /\ db_raised' = rotated.exc
            /\ IF rotated.exc # NoError
               THEN /\ single_ext' = None
                    /\ single_ext_err' = None
                    /\ db_returned' = None
               ELSE \E stats \in [DOMAIN rotated.rot0 -> GridStats] :
                    \E r \in {single_scattered(science, rotated.rot0, rotated.norm, stats)} :
                        /\ single_ext' = r.ext
                        /\ single_ext_err' = r.ext_err
                        /\ db_returned' = <<r.out, r.outerr>>
    /\ db_last' = "_pnicer_single"
    /\ UNCHANGED <<science, ev_vars, init_vars, comb_vars, grid_vars, pn_vars, px_vars, pool_vars, nc_vars, sg_vars, np_empty_raises>>

NextData == Rotate \/ AllCombinations \/ PnicerSingle

SpecData == InitData /\ [][NextData]_vars

\* C4: _pnicer_single returns extinction and error arrays of length n_data in
\* the catalogue's index order: every row that is invalid in at least one
\* feature is NaN in both arrays, and the k-th row that is valid in all
\* features receives the k-th value computed for the rotated data, which is
\* the value of that source.
C4_ScatterKeepsIndexOrder ==
    (db_last = "_pnicer_single" /\ db_raised = NoError) =>
        \A rotmatrix \in {RotmatrixOf(science)} :
        \A norm \in {DotVec(rotmatrix, science.extvec)[1]} :
            LET out == db_returned[1]
                outerr == db_returned[2]
                n_valid == Cardinality(ValidSources(science))
            IN  /\ Len(out) = science.n_data /\ Len(outerr) = science.n_data
                /\ Len(single_ext) = n_valid /\ Len(single_ext_err) = n_valid
                /\ \A i \in (1..science.n_data) \ ValidSources(science) :
                    out[i] = NaN /\ outerr[i] = NaN
                /\ \A k \in 1..n_valid :
                    \A i \in {NthValid(science, k)} :
                    \A rot0 \in {DotVec(rotmatrix, Row(science.features, i))[1]} :
                        /\ out[i] = single_ext[k]
                        /\ outerr[i] = single_ext_err[k]
                        /\ \E stat \in GridStats :
                            /\ single_ext[k] = ExtValue(rot0, stat, norm)
                            /\ single_ext_err[k] = ExtErrValue(stat, norm)

\* _pnicer_single has returned for two sources of which only the second is
\* valid, and that one has a finite extinction
C4_Witness ==
    /\ db_last = "_pnicer_single" /\ db_raised = NoError
    /\ science.n_data = 2
    /\ ValidSources(science) = {2}
    /\ db_returned[1][1] = NaN /\ db_returned[2][1] = NaN
    /\ IsFinite(db_returned[1][2]) /\ IsFinite(db_returned[2][2])
    /\ db_returned[1][2] = single_ext[1]


\* ------------------------------------------------------------------------
\* Properties of the constructor's array sizes

\* the sizes of all value arrays and all error arrays of a call
ArraySizes(a) ==
    {Len(a.mag[f]) : f \in DOMAIN a.mag} \cup {Len(a.err[f]) : f \in DOMAIN a.err}

\* C11: every constructed instance has all of its value arrays and all of its
\* error arrays of one common length n_data; construction fails whenever any
\* value array or any error array has a size different from the others.
C11_AllArraysOneLength ==
    init_pc = "done" =>
        /\ Cardinality(ArraySizes(init_args)) > 1 => init_raised # NoError
        /\ init_raised = NoError =>
            \A f \in 1..init_obj.n_features :
                /\ Len(init_obj.features[f]) = init_obj.n_data
                /\ Len(init_obj.features_err[f]) = init_obj.n_data


\* ------------------------------------------------------------------------
\* Magnitudes.pnicer, Colors.pnicer (src/pnicer.py 728-743, 841-851) and the
\* control flow of DataBase._pnicer_combinations (260-307)

\* bound of the model: the number of features of an instance
MaxFeatures == 4

\* Magnitudes.color_combinations (691-722) called on obj: [exc, n], n the
\* length of the returned list. Only Magnitudes has the method; mag2color
\* (669-687) builds a Colors instance of n_features - 1 colours, which the
\* constructor rejects below two features (line 65)
ColorCombinations(obj) ==
    IF obj.cls # "Magnitudes" THEN [exc |-> "AttributeError", n |-> 0]
    ELSE IF TooFewFeatures(obj.n_features - 1) THEN [exc |-> "ValueError", n |-> 0]
    ELSE [exc |-> NoError, n |-> Len(AllC(obj.n_features - 1))]

\* lines 738-741, 850: comb = zip(..., ...): [exc, n], n the number of pairs
PnicerComb(obj, control, use_color) ==
    LET sc == IF use_color THEN ColorCombinations(obj)
              ELSE [exc |-> NoError, n |-> Len(AllC(obj.n_features))]
        cc == IF use_color THEN ColorCombinations(control)
              ELSE [exc |-> NoError, n |-> Len(AllC(control.n_features))]
    IN  IF sc.exc # NoError THEN sc
        ELSE IF cc.exc # NoError THEN cc
        ELSE [exc |-> NoError, n |-> IF sc.n <= cc.n THEN sc.n ELSE cc.n]

\* lines 738-741, 850: the pairs zip() yields, each the feature indices (of
\* the magnitudes, or of the colours with use_color) of the science and of
\* the control combination
PnicerZip(obj, control, use_color) ==
    LET sc == AllC(IF use_color THEN obj.n_features - 1 ELSE obj.n_features)
        cc == AllC(IF use_color THEN control.n_features - 1 ELSE control.n_features)
    IN  [k \in 1..Min({Len(sc), Len(cc)}) |-> <<sc[k], cc[k]>>]

PnicerInstances(classes) == [cls : classes, n_features : 2..MaxFeatures]

InitPnicer ==
    /\ SgIdle
    /\ NcIdle
    /\ PoolIdle
    /\ PxIdle
    /\ EvIdle /\ InitIdle /\ CombIdle /\ DbIdle /\ SingleIdle /\ GridIdle
    /\ np_empty_raises = FALSE
    /\ pn_science \in PnicerInstances({"Magnitudes", "Colors"})
    /\ pn_control \in PnicerInstances({"DataBase", "Magnitudes", "Colors"})
    /\ pn_use_color \in BOOLEAN
    \* Colors.pnicer has no argument use_color
    /\ pn_science.cls = "Colors" => ~pn_use_color
    /\ pn_pc = "call"
    /\ pn_pairs = 0 /\ pn_comb = None /\ pn_kde_calls = 0
    /\ pn_diagnostics = None /\ pn_returned = None /\ pn_raised = NoError

\* pnicer() up to the loop of _pnicer_combinations: the combinations are
\* built, then line 271 compares the classes
PnicerCall ==
    /\ pn_pc = "call"
    /\ LET comb == PnicerComb(pn_science, pn_control, pn_use_color)
           exc == IF comb.exc # NoError THEN comb.exc
                  ELSE IF pn_control.cls # pn_science.cls THEN "TypeError"
                  ELSE NoError
       IN  /\ pn_raised' = exc
           /\ pn_pc' = IF exc = NoError THEN "loop" ELSE "done"
           /\ pn_pairs' = IF exc = NoError THEN comb.n ELSE 0
           /\ pn_comb' = IF exc = NoError
                         THEN PnicerZip(pn_science, pn_control, pn_use_color) ELSE None
    /\ UNCHANGED <<pn_science, pn_control, pn_use_color, pn_kde_calls,
                   pn_diagnostics, pn_returned>>
    /\ UNCHANGED <<ev_vars, init_vars, comb_vars, db_vars, single_vars, grid_vars,
                   px_vars, pool_vars, nc_vars, sg_vars, np_empty_raises>>

\* lines 279-290: one pass of the loop; _pnicer_single evaluates the density
\* (line 216) unless it raises before (no source valid in all features)
PnicerLoop ==
    /\ pn_pc = "loop"
    /\ pn_kde_calls < pn_pairs
    /\ \E evaluated \in BOOLEAN :
        IF evaluated
        THEN /\ pn_kde_calls' = pn_kde_calls + 1
             /\ UNCHANGED <<pn_pc, pn_raised>>
        ELSE /\ pn_pc' = "done"
             /\ pn_raised' = "ValueError"
             /\ UNCHANGED pn_kde_calls
    /\ UNCHANGED <<pn_science, pn_control, pn_use_color, pn_pairs, pn_comb,
                   pn_diagnostics, pn_returned>>
    /\ UNCHANGED <<ev_vars, init_vars, comb_vars, db_vars, single_vars, grid_vars,
                   px_vars, pool_vars, nc_vars, sg_vars, np_empty_raises>>

\* lines 292-307: the diagnostics are stored and the Extinction is returned
PnicerReturn ==
    /\ pn_pc = "loop"
    /\ pn_kde_calls = pn_pairs
    /\ pn_diagnostics' = pn_pairs
    /\ pn_returned' = "Extinction"
    /\ pn_pc' = "done"
    /\ UNCHANGED <<pn_science, pn_control, pn_use_color, pn_pairs, pn_comb,
                   pn_kde_calls, pn_raised>>
    /\ UNCHANGED <<ev_vars, init_vars, comb_vars, db_vars, single_vars, grid_vars,
                   px_vars, pool_vars, nc_vars, sg_vars, np_empty_raises>>

NextPnicer == PnicerCall \/ PnicerLoop \/ PnicerReturn

SpecPnicer == InitPnicer /\ [][NextPnicer]_vars

\* C26: every pair of combinations that is evaluated holds a science and a
\* control combination of the same feature indices, also when science and
\* control differ in their number of features
C26_PairsShareFeatureIndices ==
    pn_comb # None =>
        \A k \in 1..pn_kde_calls : pn_comb[k][1] = pn_comb[k][2]

\* C12: running PNICER with a science instance and a control instance of
\* different classes fails with TypeError before any density evaluation; no
\* Extinction is produced and no per-combination diagnostics are stored.
C12_ClassMismatchIsTypeError ==
    pn_science # None /\ pn_control # None /\ pn_science.cls # pn_control.cls =>
        /\ pn_kde_calls = 0
        /\ pn_returned = None
        /\ pn_diagnostics = None
        /\ pn_pc = "done" => pn_raised = "TypeError"


\* ------------------------------------------------------------------------
\* get_extinction_pixel (src/pnicer.py 1176-1269), for a pixel and sources on
\* the equator (ygrid = 0, ydata = 0) with longitudes in whole degrees: there
\* the spherical distance of line 1206 is the longitude difference taken the
\* short way round

\* lines 1191-1194
Trunc(method) == IF method \in {"average", "median"} THEN 1 ELSE 3

\* lines 1197-1198 for one source (the conditions on ydata hold for every
\* positive bandwidth)
InBox(x, xgrid, radius) == x > xgrid - radius /\ x < xgrid + radius

\* lines 1206-1208 for one source
Distance(x, xgrid) ==
    LET d == (x - xgrid) % 360
    IN  IF d <= 180 THEN d ELSE 360 - d

\* numpy.nansum, and the number of entries that are not NaN
RECURSIVE NanSum(_)
NanSum(a) ==
    IF a = <<>> THEN Num(0)
    ELSE IF IsNaN(Head(a)) THEN NanSum(Tail(a))
    ELSE FAdd(Head(a), NanSum(Tail(a)))

NotNaN(a) == Compress(a, [i \in DOMAIN a |-> ~IsNaN(a[i])])

\* numpy.nanmean
NanMean(a) == FDiv(NanSum(a), Num(Len(NotNaN(a))))

\* the k-th smallest entry of a sequence of finite floats
KthSmallest(a, k) ==
    CHOOSE x \in Range(a) :
        /\ Cardinality({i \in DOMAIN a : FLt(a[i], x)}) < k
        /\ Cardinality({i \in DOMAIN a : ~FLt(x, a[i])}) >= k

\* numpy.nanmedian
NanMedian(a) ==
    LET v == NotNaN(a)
        m == Len(v)
    IN  IF m = 0 THEN NaN
        ELSE IF m % 2 = 1 THEN KthSmallest(v, (m + 1) \div 2)
        ELSE FDiv(FAdd(KthSmallest(v, m \div 2), KthSmallest(v, m \div 2 + 1)), Num(2))

\* exp(-x) for x >= 0 is irrational; the model takes 1 / (1 + x), which like
\* exp(-x) is 1 at 0, positive and strictly decreasing
ExpNeg(x) == FDiv(Num(1), FAdd(Num(1), x))

\* 1 / (2 * pi), with 3 for pi
InvTwoPi == Rat(1, 6)

\* lines 1240-1249: the kernel weight of a source at distance dis; None for
\* a method that is not implemented
KernelWeight(method, dis, bandwidth) ==
    LET u == Rat(dis, bandwidth)
    IN  IF method = "uniform" THEN Num(1)
        ELSE IF method = "triangular" THEN FSub(Num(1), u)
        ELSE IF method = "gaussian" THEN FMul(InvTwoPi, ExpNeg(FDiv(FMul(u, u), Num(2))))
        ELSE IF method = "epanechnikov" THEN FSub(Num(1), FMul(u, u))
        ELSE None

\* line 1252: weights[weights < 0] = 0
ClipNegative(w) == IF FLt(w, Num(0)) THEN Num(0) ELSE w

\* line 1256: 10 ** (0.33 * ext), for an extinction that is a multiple of
\* 100/33, where the power is an integer power of ten
NicestFactorInverted(e) ==
    IF IsNaN(e) THEN NaN
    ELSE LET k == (33 * e[1]) \div (100 * e[2])
         IN  IF k >= 0 THEN Rat(1, 10 ^ k) ELSE Num(10 ^ (-k))

NicestFactor(e) ==
    IF IsNaN(e) THEN NaN
    ELSE LET k == (33 * e[1]) \div (100 * e[2])
         IN  IF k >= 0 THEN Num(10 ^ k) ELSE Rat(1, 10 ^ (-k))


\* line 1230: fewer than two extinction measurements
TooFewMeasurementsOffByOne(n_finite) == n_finite < 1

TooFewMeasurements(n_finite) == n_finite < 2

Sq(x) == FMul(x, x)

\* get_extinction_pixel: [exc, val], val the returned triple as a record
\* [epixel, epixel_err_sq, npixel] that holds the square of the returned
\* error (line 1266 takes the square root, NaN for NaN).
\* strict: numpy raises IndexError for a boolean index whose length differs
\* from the array's (older releases only warn and use the positions of its
\* True entries)
get_extinction_pixel(xgrid, xdata, ext, ext_err, bandwidth, method, nicest, strict) ==
    LET radius == Trunc(method) * bandwidth
        returns(e, err, n) ==
            [exc |-> NoError, val |-> [epixel |-> e, epixel_err_sq |-> err, npixel |-> n]]
        \* lines 1197-1198
        box == [i \in DOMAIN xdata |-> InBox(xdata[i], xgrid, radius)]
        \* line 1204: ext, xdata and ydata are filtered, ext_err is not
        ext_box == Compress(ext, box)
        xdata_box == Compress(xdata, box)
        dis_box == [i \in DOMAIN xdata_box |-> Distance(xdata_box[i], xgrid)]
        \* line 1211
        index == [i \in DOMAIN dis_box |-> dis_box[i] < radius]
        ext_in == Compress(ext_box, index)
        \* line 1217: ext_err[index] on the unfiltered ext_err
        err_in == Compress(SubSeq(ext_err, 1, Len(index)), index)
        dis_in == Compress(dis_box, index)
        npixel == Len(ext_in)
        n_finite == Cardinality({i \in DOMAIN ext_in : IsFinite(ext_in[i])})
        \* lines 1240-1259
        kernel == [i \in DOMAIN dis_in |->
                      ClipNegative(KernelWeight(method, dis_in[i], bandwidth))]
        adjusted == IF nicest
                    THEN [i \in DOMAIN kernel |-> FMul(kernel[i], NicestFactor(ext_in[i]))]
                    ELSE kernel
        weights == [i \in DOMAIN adjusted |->
                       IF IsFinite(ext_in[i]) THEN adjusted[i] ELSE NaN]
    IN  IF \A i \in DOMAIN box : ~box[i] THEN returns(NaN, NaN, 0)
        ELSE IF strict /\ Len(index) # Len(ext_err) THEN [exc |-> "IndexError", val |-> None]
        ELSE IF npixel = 0 \/ TooFewMeasurements(n_finite) THEN returns(NaN, NaN, npixel)
        ELSE IF method = "average" THEN returns(NanMean(ext_in), NaN, npixel)
        ELSE IF method = "median" THEN returns(NanMedian(ext_in), NaN, npixel)
        ELSE IF KernelWeight(method, 0, bandwidth) = None
        THEN [exc |-> "TypeError", val |-> None]
        ELSE returns(
                FDiv(NanSum([i \in DOMAIN weights |-> FMul(weights[i], ext_in[i])]),
                     NanSum(weights)),
                FDiv(NanSum([i \in DOMAIN weights |-> Sq(FMul(weights[i], err_in[i]))]),
                     Sq(NanSum(weights))),
                npixel)

\* bound of the model: the number of sources of the catalogue
MaxSources == 2

\* the calls of the model
PixelLongitudes == {0}

SourceLongitudes == {0, 1, 4, 10, 359}

PixelBandwidths == {2}

PixelExtinctions == {NaN, Num(0), Rat(100, 33), Rat(-100, 33)}

PixelMethods ==
    {"average", "median", "uniform", "triangular", "gaussian", "epanechnikov", "other"}

InitPixel ==
    /\ SgIdle
    /\ NcIdle
    /\ PoolIdle
    /\ EvIdle /\ InitIdle /\ CombIdle /\ DbIdle /\ SingleIdle /\ GridIdle /\ PnIdle
    /\ np_empty_raises = FALSE
    /\ px_xgrid \in PixelLongitudes
    /\ \E n \in 1..MaxSources :
        /\ px_xdata \in [1..n -> SourceLongitudes]
        /\ px_ext \in [1..n -> PixelExtinctions]
        /\ px_ext_err = [i \in 1..n |-> Num(i)]
    /\ px_bandwidth \in PixelBandwidths
    /\ px_method \in PixelMethods
    /\ px_nicest \in BOOLEAN
    /\ px_strict_index \in BOOLEAN
    /\ px_pc = "call"
    /\ px_returned = None
    /\ px_raised = NoError

\* get_extinction_pixel(xgrid, 0, xdata, ydata, ext, ext_err, bandwidth, method, nicest)
GetExtinctionPixel ==
    /\ px_pc = "call"
    /\ \E r \in {get_extinction_pixel(px_xgrid, px_xdata, px_ext, px_ext_err, px_bandwidth,
                                      px_method, px_nicest, px_strict_index)} :
        /\ px_returned' = r.val
        /\ px_raised' = r.exc
    /\ px_pc' = "done"
    /\ UNCHANGED <<px_xgrid, px_xdata, px_ext, px_ext_err, px_bandwidth, px_method,
                   px_nicest, px_strict_index>>
    /\ UNCHANGED <<ev_vars, init_vars, comb_vars, db_vars, single_vars, grid_vars, pn_vars,
                   pool_vars, nc_vars, sg_vars, np_empty_raises>>

NextPixel == GetExtinctionPixel

SpecPixel == InitPixel /\ [][NextPixel]_vars

\* the sources inside the truncation radius of the pixel, by their distance
WithinRadius ==
    {i \in DOMAIN px_xdata :
        Distance(px_xdata[i], px_xgrid) < Trunc(px_method) * px_bandwidth}

FiniteWithinRadius == {i \in WithinRadius : IsFinite(px_ext[i])}

\* lines 1236-1247: the methods that weight the sources by a kernel
WeightedMethods == {"uniform", "triangular", "gaussian", "epanechnikov"}

\* C28: for the weighted methods without bias correction, every pixel with at
\* least 2 finite-extinction sources inside the truncation radius gets a
\* finite extinction between the minimum and the maximum extinction of those
\* sources
C28_WeightedMeanWithinSourceRange ==
    (/\ px_pc = "done"
     /\ px_method \in WeightedMethods
     /\ ~px_nicest
     /\ Cardinality(FiniteWithinRadius) >= 2) =>
        /\ px_raised = NoError
        /\ IsFinite(px_returned.epixel)
        /\ \E i \in FiniteWithinRadius : ~FLt(px_returned.epixel, px_ext[i])
        /\ \E j \in FiniteWithinRadius : ~FLt(px_ext[j], px_returned.epixel)

\* C13: get_extinction_pixel returns NaN extinction and NaN error, together
\* with the source count, for every pixel that has zero sources or fewer than
\* 2 sources with finite extinction inside the truncation radius, for every
\* aggregation method.
C13_TooFewSourcesReturnNaN ==
    (px_pc = "done" /\ Cardinality(FiniteWithinRadius) < 2) =>
        /\ px_raised = NoError
        /\ px_returned.epixel = NaN
        /\ px_returned.epixel_err_sq = NaN

\* C14: the count returned by get_extinction_pixel equals the number of
\* sources whose great-circle distance to the pixel is below the truncation
\* radius, sources with non-finite extinction included, on every return path.
C14_CountIsSourcesWithinRadius ==
    (px_pc = "done" /\ px_raised = NoError) =>
        px_returned.npixel = Cardinality(WithinRadius)


\* the catalogue holds a single source, and its extinction is finite
SingleFiniteSource == Len(px_xdata) = 1 /\ IsFinite(px_ext[1])

\* C15 as claimed: for a catalogue holding a single isolated source with
\* finite extinction, the pixel nearest to the source (here the pixel at the
\* source's own position) has the source's extinction as its value, and every
\* pixel farther than the truncation radius from the source is NaN.
C15_SingleSourceGivesItsExtinction ==
    (px_pc = "done" /\ SingleFiniteSource) =>
        /\ px_raised = NoError
        /\ Distance(px_xdata[1], px_xgrid) = 0 => px_returned.epixel = px_ext[1]
        /\ Distance(px_xdata[1], px_xgrid) >= Trunc(px_method) * px_bandwidth =>
               px_returned.epixel = NaN

\* C15 as amended: for a catalogue holding a single source with finite
\* extinction every pixel is NaN in extinction and error, also the pixel
\* nearest to the source: a pixel needs 2 sources with finite extinction
\* inside the truncation radius.
C15_SingleSourceGivesNaN ==
    (px_pc = "done" /\ SingleFiniteSource) =>
        /\ px_raised = NoError
        /\ px_returned.epixel = NaN
        /\ px_returned.epixel_err_sq = NaN

\* the pixel at the position of a single source with finite extinction has
\* counted the source and returned NaN
C15_Witness ==
    /\ px_pc = "done" /\ SingleFiniteSource
    /\ Distance(px_xdata[1], px_xgrid) = 0
    /\ px_raised = NoError
    /\ px_returned.npixel = 1
    /\ px_returned.epixel = NaN

\* the sources that enter the weighted mean with a positive kernel weight
Contributing ==
    {i \in DOMAIN px_xdata :
        /\ InBox(px_xdata[i], px_xgrid, Trunc(px_method) * px_bandwidth)
        /\ Distance(px_xdata[i], px_xgrid) < Trunc(px_method) * px_bandwidth
        /\ IsFinite(px_ext[i])
        /\ FLt(Num(0), KernelWeight(px_method, Distance(px_xdata[i], px_xgrid),
                                    px_bandwidth))}

\* the pixel's extinction for the call's arguments with the given nicest
PixelValue(nicest) ==
    IF nicest = px_nicest THEN px_returned.epixel
    ELSE get_extinction_pixel(px_xgrid, px_xdata, px_ext, px_ext_err, px_bandwidth,
                              px_method, nicest, px_strict_index).val.epixel

\* C16: for the weighted methods, on the same pixel and sources, the pixel
\* extinction with the bias correction (weights times 10^(0.33*extinction))
\* is never lower than without it, and strictly higher when at least two
\* contributing sources with positive kernel weight differ in extinction.
C16_BiasCorrectionRaisesValue ==
    (px_pc = "done" /\ px_raised = NoError /\ px_method \in WeightedMethods) =>
        /\ ~FLt(PixelValue(TRUE), PixelValue(FALSE))
        /\ (\E i \in Contributing, j \in Contributing : ~FEq(px_ext[i], px_ext[j]))
               => FLt(PixelValue(FALSE), PixelValue(TRUE))

\* a corrected triangular pixel of two sources at different distances and
\* with different extinctions lies above the uncorrected value
C16_Witness ==
    /\ px_pc = "done" /\ px_raised = NoError
    /\ px_method = "triangular" /\ px_nicest
    /\ Len(px_xdata) = 2 /\ Contributing = {1, 2}
    /\ px_xdata[1] # px_xdata[2]
    /\ FLt(px_ext[1], px_ext[2])
    /\ FLt(PixelValue(FALSE), px_returned.epixel)


\* ------------------------------------------------------------------------
\* mp_kde (src/pnicer.py 1134-1171), _mp_kde (1124-1131) and
\* Extinction.build_map (1001-1031): one unit of work per grid chunk or per
\* pixel, run by the workers of a multiprocessing.Pool

MaxGrid == 3
MaxWorkers == 3
MaxPixels == 4

RECURSIVE Concatenate(_)
\* numpy.concatenate of a list of 1D arrays
Concatenate(arrays) ==
    IF arrays = <<>> THEN <<>> ELSE Head(arrays) \o Concatenate(Tail(arrays))

\* numpy.array_split(a, sections, axis=0): the first len(a) % sections
\* chunks hold len(a) // sections + 1 entries, the others len(a) // sections
ArraySplit(a, sections) ==
    LET each == Len(a) \div sections
        extras == Len(a) % sections
    IN  [j \in 1..sections |->
            SubSeq(a, (j - 1) * each + Min({j - 1, extras}) + 1, j * each + Min({j, extras}))]

\* _mp_kde on one chunk of grid points (their positions in the grid):
\* scikit-learn's score_samples validates the chunk and rejects one without
\* samples; otherwise the density of each point of the chunk
_mp_kde(chunk, raw, empty_raises) ==
    IF chunk = <<>> /\ empty_raises THEN [exc |-> "ValueError", val |-> None]
    ELSE [exc |-> NoError, val |-> [i \in DOMAIN chunk |-> raw[chunk[i]]]]

\* line 1165: mp *= data.shape[0] / np.sum(mp) * sampling. A zero sum makes
\* the factor infinite and every (zero) density NaN
KdeScaleDividesSampling(mp, n_data, sampling) ==
    IF FSum(mp) = Num(0) THEN [i \in DOMAIN mp |-> NaN]
    ELSE LET factor == FDiv(FDiv(Num(n_data), FSum(mp)), Num(sampling))
         IN  [i \in DOMAIN mp |-> FMul(mp[i], factor)]

KdeScale(mp, n_data, sampling) ==
    IF FSum(mp) = Num(0) THEN [i \in DOMAIN mp |-> NaN]
    ELSE LET factor == FMul(FDiv(Num(n_data), FSum(mp)), Num(sampling))
         IN  [i \in DOMAIN mp |-> FMul(mp[i], factor)]

\* the units that have raised
Failed(results) ==
    {j \in DOMAIN results : results[j] # None /\ results[j].exc # NoError}

\* starmap / map return the list of results once every unit has returned
GatherableIgnoringErrors(results) ==
    \A j \in DOMAIN results : results[j] # None

Gatherable(results) ==
    /\ \A j \in DOMAIN results : results[j] # None
    /\ Failed(results) = {}

\* the values of the units that returned, in submission order
Values(results) ==
    LET ok == SelectSeq([j \in DOMAIN results |-> j], LAMBDA j : results[j].exc = NoError)
    IN  [k \in DOMAIN ok |-> results[ok[k]].val]

RawDensities == {Num(0), Num(1), Num(2)}
KdeSamplings == {0, 1, 2}
KdeDataSizes == {1, 3}

\* numpy arrays as [shape, data]: data holds the entries in C order, as
\* ravel() lists them and reshape() reads them
Reshape(flat, shape) == [shape |-> shape, data |-> flat]

\* ExtinctionMap.__init__ (lines 1060-1077): [exc, val], val the instance
ExtinctionMapNew(ext, ext_err, num) ==
    IF Len(ext.shape) # 2 \/ Len(ext_err.shape) # 2 \/ Len(num.shape) # 2
    THEN [exc |-> "TypeError", val |-> None]
    ELSE [exc |-> NoError,
          val |-> [map |-> ext, err |-> ext_err, num |-> num, shape |-> ext.shape]]

\* the arrays of a direct ExtinctionMap(...) call: zeros of these shapes
MapArgShapes == {<<2>>, <<1, 1>>, <<1, 2>>, <<2, 1>>}

Zeros(shape) ==
    Reshape([k \in 1..(IF Len(shape) = 1 THEN shape[1] ELSE shape[1] * shape[2]) |-> Num(0)],
            shape)

MapPixelLongitudes == {0, 20}
MapSourceLongitudes == {0, 10}
\* the extinction of the i-th source of the catalogue
MapExtinction(i) == IF i = 1 THEN Num(0) ELSE Rat(100, 33)
MapMethods == {"median", "triangular", "nearest"}

InitKde ==
    /\ pool_kind = "mp_kde"
    /\ \E n \in 1..MaxGrid : kde_raw \in [1..n -> RawDensities]
    /\ kde_cpu_count \in 1..MaxWorkers
    /\ kde_absolute \in BOOLEAN
    /\ kde_sampling \in KdeSamplings
    /\ kde_n_data \in KdeDataSizes
    /\ sk_empty_raises \in BOOLEAN
    /\ MapIdle

InitMap ==
    /\ pool_kind = "build_map"
    /\ \E n \in 1..MaxSources, p \in 1..MaxPixels :
        /\ map_pixels \in [1..p -> MapPixelLongitudes]
        /\ map_shape \in {sh \in (1..p) \X (1..p) : sh[1] * sh[2] = p}
        /\ \E lon \in [1..n -> MapSourceLongitudes] :
            map_db = [lon |-> lon, extinction |-> [i \in 1..n |-> MapExtinction(i)],
                      error |-> [i \in 1..n |-> Num(i)]]
    /\ map_bandwidth \in PixelBandwidths
    /\ map_method \in MapMethods
    /\ map_nicest = FALSE
    /\ map_strict_index \in BOOLEAN
    /\ map_args = None
    /\ KdeIdle

InitNewMap ==
    /\ pool_kind = "ExtinctionMap"
    /\ \E a, b, c \in MapArgShapes :
        map_args = [ext |-> Zeros(a), ext_err |-> Zeros(b), num |-> Zeros(c)]
    /\ map_pixels = None /\ map_shape = None /\ map_db = None /\ map_bandwidth = 0
    /\ map_method = "" /\ map_nicest = FALSE /\ map_strict_index = FALSE
    /\ KdeIdle

InitPool ==
    /\ SgIdle
    /\ NcIdle
    /\ EvIdle /\ InitIdle /\ CombIdle /\ DbIdle /\ SingleIdle /\ GridIdle /\ PnIdle /\ PxIdle
    /\ np_empty_raises = FALSE
    /\ InitKde \/ InitMap \/ InitNewMap
    /\ pool_pc = "call"
    /\ pool_tasks = None
    /\ pool_results = None
    /\ pool_returned = None
    /\ pool_raised = NoError

PoolFrame ==
    UNCHANGED <<pool_kind, kde_raw, kde_cpu_count, kde_absolute, kde_sampling, kde_n_data,
                sk_empty_raises, map_pixels, map_shape, map_args, map_db, map_bandwidth,
                map_method, map_nicest, map_strict_index,
                ev_vars, init_vars, comb_vars, db_vars, single_vars, grid_vars, pn_vars,
                px_vars, nc_vars, sg_vars, np_empty_raises>>

\* mp_kde, lines 1148-1158: the assertion, the split and the submission
MpKdeCall ==
    /\ pool_kind = "mp_kde" /\ pool_pc = "call"
    /\ IF kde_absolute /\ kde_sampling = 0
       THEN /\ pool_raised' = "AssertionError"
            /\ pool_pc' = "done"
            /\ UNCHANGED <<pool_tasks, pool_results>>
       ELSE /\ pool_tasks' = ArraySplit([i \in DOMAIN kde_raw |-> i], kde_cpu_count)
            /\ pool_results' = [j \in 1..kde_cpu_count |-> None]
            /\ pool_pc' = "running"
            /\ UNCHANGED pool_raised
    /\ UNCHANGED pool_returned
    /\ PoolFrame

\* build_map, lines 1010-1017: one unit per pixel of the raveled grid
BuildMapCall ==
    /\ pool_kind = "build_map" /\ pool_pc = "call"
    /\ pool_tasks' = map_pixels
    /\ pool_results' = [j \in DOMAIN map_pixels |-> None]
    /\ pool_pc' = "running"
    /\ UNCHANGED <<pool_returned, pool_raised>>
    /\ PoolFrame

\* what the worker that runs unit j hands back
RunUnit(j) ==
    IF pool_kind = "mp_kde" THEN _mp_kde(pool_tasks[j], kde_raw, sk_empty_raises)
    ELSE get_extinction_pixel(pool_tasks[j], map_db.lon, map_db.extinction, map_db.error,
                              map_bandwidth, map_method, map_nicest, map_strict_index)

\* a worker finishes a unit, in any order; its result or its exception is
\* stored at the position of the unit
WorkerFinish ==
    /\ pool_pc = "running"
    /\ \E j \in DOMAIN pool_results :
        /\ pool_results[j] = None
        /\ pool_results' = [pool_results EXCEPT ![j] = RunUnit(j)]
    /\ UNCHANGED <<pool_pc, pool_tasks, pool_returned, pool_raised>>
    /\ PoolFrame

\* starmap / map re-raise the exception of a unit in the caller (at once or
\* when the other units are done, depending on the Python release)
PoolRaise ==
    /\ pool_pc = "running"
    /\ \E j \in Failed(pool_results) : pool_raised' = pool_results[j].exc
    /\ pool_pc' = "done"
    /\ UNCHANGED <<pool_tasks, pool_results, pool_returned>>
    /\ PoolFrame

\* mp_kde, lines 1161-1171
MpKdeReturn ==
    /\ pool_kind = "mp_kde" /\ pool_pc = "running"
    /\ Gatherable(pool_results)
    /\ LET mp == Concatenate(Values(pool_results))
       IN  pool_returned' = IF kde_absolute THEN KdeScale(mp, kde_n_data, kde_sampling)
                            ELSE mp
    /\ pool_pc' = "done"
    /\ UNCHANGED <<pool_tasks, pool_results, pool_raised>>
    /\ PoolFrame

\* build_map, lines 1019-1031: the three lists are reshaped to the shape of
\* grid_lon and handed to ExtinctionMap (err holds the squares of the errors)
BuildMapReturn ==
    /\ pool_kind = "build_map" /\ pool_pc = "running"
    /\ Gatherable(pool_results)
    /\ LET mp == Values(pool_results)
           extmap == Reshape([k \in DOMAIN mp |-> mp[k].epixel], map_shape)
           extmap_err == Reshape([k \in DOMAIN mp |-> mp[k].epixel_err_sq], map_shape)
           nummap == Reshape([k \in DOMAIN mp |-> mp[k].npixel], map_shape)
           new == ExtinctionMapNew(extmap, extmap_err, nummap)
       IN  /\ pool_returned' = new.val
           /\ pool_raised' = new.exc
    /\ pool_pc' = "done"
    /\ UNCHANGED <<pool_tasks, pool_results>>
    /\ PoolFrame

\* a direct call ExtinctionMap(ext, ext_err, num, header)
ExtinctionMapCall ==
    /\ pool_kind = "ExtinctionMap" /\ pool_pc = "call"
    /\ LET new == ExtinctionMapNew(map_args.ext, map_args.ext_err, map_args.num)
       IN  /\ pool_returned' = new.val
           /\ pool_raised' = new.exc
    /\ pool_pc' = "done"
    /\ UNCHANGED <<pool_tasks, pool_results>>
    /\ PoolFrame

NextPool ==
    \/ MpKdeCall
    \/ BuildMapCall
    \/ WorkerFinish
    \/ PoolRaise
    \/ MpKdeReturn
    \/ BuildMapReturn
    \/ ExtinctionMapCall

SpecPool == InitPool /\ [][NextPool]_vars

\* what mp_kde has to return for the grid, whatever the split
KdeExpected ==
    IF kde_absolute THEN KdeScale(kde_raw, kde_n_data, kde_sampling) ELSE kde_raw

\* C17: mp_kde splits the grid into one contiguous chunk per worker, the
\* chunks cover every grid point exactly once in grid order, and every call
\* that passes the sampling assertion returns the density of every grid
\* point in grid order, whatever the worker count and the finishing order
C17_ChunksCoverAndResultInGridOrder ==
    pool_kind = "mp_kde" =>
        /\ pool_tasks # None =>
            /\ Len(pool_tasks) = kde_cpu_count
            /\ Concatenate(pool_tasks) = [i \in DOMAIN kde_raw |-> i]
        /\ (pool_pc = "done" /\ ~(kde_absolute /\ kde_sampling = 0)) =>
            /\ pool_raised = NoError
            /\ pool_returned = KdeExpected

\* C18: in absolute mode with raw densities of positive sum, the returned
\* densities sum to data.shape[0] * sampling
C18_AbsoluteSumIsCountTimesSampling ==
    (/\ pool_kind = "mp_kde" /\ pool_pc = "done" /\ pool_raised = NoError
     /\ kde_absolute
     /\ FLt(Num(0), FSum(kde_raw)))
        => FSum(pool_returned) = Num(kde_n_data * kde_sampling)

C18_Witness ==
    /\ pool_kind = "mp_kde" /\ pool_pc = "done" /\ pool_raised = NoError
    /\ kde_absolute
    /\ kde_sampling = 2 /\ kde_n_data = 3
    /\ kde_cpu_count = 2
    /\ Len(kde_raw) = 3
    /\ FSum(kde_raw) = Num(5)
    /\ FSum(pool_returned) = Num(6)

\* C20: when a worker of mp_kde or build_map has raised, the invocation
\* ends with the exception of a worker and returns nothing; whatever
\* is returned is built from the results of all the units
C20_FailedWorkerFailsInvocation ==
    /\ (pool_pc = "done" /\ Failed(pool_results) # {}) =>
            /\ pool_returned = None
            /\ \E j \in Failed(pool_results) : pool_raised = pool_results[j].exc
    /\ pool_returned # None =>
            /\ Failed(pool_results) = {}
            /\ \A j \in DOMAIN pool_results : pool_results[j] # None

C20_Witness ==
    /\ pool_kind = "build_map" /\ pool_pc = "done"
    /\ pool_raised = "IndexError"
    /\ pool_returned = None
    /\ \E j, k \in DOMAIN pool_results :
        /\ pool_results[j] # None /\ pool_results[j].exc = NoError
        /\ pool_results[k] # None /\ pool_results[k].exc = "IndexError"


\* ------------------------------------------------------------------------
\* Magnitudes.nicer (src/pnicer.py 747-819)

MaxNicerData == 1

NicerFeatureCounts == {2, 3}
NicerMagnitudes == {NaN, Inf, Num(1), Num(3)}
NicerWeights == {Num(1), Rat(1, 2)}

\* a - b on magnitudes that may be infinite: inf - inf is NaN
Color(a, b) ==
    IF IsNaN(a) \/ IsNaN(b) THEN NaN
    ELSE IF IsFinite(a) /\ IsFinite(b) THEN FSub(a, b)
    ELSE IF IsFinite(b) THEN a
    ELSE IF IsFinite(a) THEN <<-b[1], 0>>
    ELSE IF a = b THEN NaN ELSE a

\* lines 769, 793: the colours of consecutive features,
\* [l |-> features[l] - features[l+1]]
Colors(features) ==
    [l \in 1..(Len(features) - 1) |->
        [i \in DOMAIN features[l] |-> Color(features[l][i], features[l + 1][i])]]

\* line 769: the intrinsic colours of the control field
Color0(control) ==
    LET c == Colors(control) IN [l \in DOMAIN c |-> NanMean(c[l])]

\* line 796: the sources for which every colour is NaN
BadColor(scolors) ==
    [i \in DOMAIN scolors[1] |-> \A l \in DOMAIN scolors : IsNaN(scolors[l][i])]

\* lines 799-802: non-finite colours become 0, then the colours of the bad
\* sources NaN again
FilledColors(scolors) ==
    LET bad == BadColor(scolors)
    IN  [l \in DOMAIN scolors |->
            [i \in DOMAIN scolors[l] |->
                IF bad[i] THEN NaN
                ELSE IF IsFinite(scolors[l][i]) THEN scolors[l][i] ELSE Num(0)]]

\* lines 805-807 (equation 13): sum over the colours of b * (colour - color_0)
NicerExtinction(filled, color_0, b) ==
    [i \in DOMAIN filled[1] |->
        FSum([l \in DOMAIN filled |-> FMul(b[l], FSub(filled[l][i], color_0[l]))])]

\* a control field with every band measured, one without its first band,
\* one with a band more, and a value that is no DataBase
NicerControls(n) ==
    {[is_database |-> TRUE, features |-> [l \in 1..n |-> <<Num(l * l)>>]],
     [is_database |-> TRUE,
      features |-> [l \in 1..n |-> IF l = 1 THEN <<NaN>> ELSE <<Num(l * l)>>]],
     [is_database |-> TRUE, features |-> [l \in 1..(n + 1) |-> <<Num(l * l)>>]],
     [is_database |-> FALSE, features |-> None]}

InitNicer ==
    /\ SgIdle
    /\ EvIdle /\ InitIdle /\ CombIdle /\ DbIdle /\ SingleIdle /\ GridIdle /\ PnIdle /\ PxIdle
    /\ PoolIdle
    /\ np_empty_raises = FALSE
    /\ \E n \in NicerFeatureCounts, d \in 1..MaxNicerData :
        /\ nc_features \in [1..n -> [1..d -> NicerMagnitudes]]
        /\ nc_control \in NicerControls(n)
        /\ \E w \in NicerWeights : nc_b = [l \in 1..(n - 1) |-> w]
    /\ nc_pc = "call"
    /\ nc_returned = None
    /\ nc_raised = NoError

Nicer ==
    /\ nc_pc = "call"
    /\ nc_pc' = "done"
    /\ IF ~nc_control.is_database
       THEN nc_raised' = "TypeError" /\ UNCHANGED nc_returned
       ELSE IF Len(nc_features) # Len(nc_control.features)
       THEN nc_raised' = "ValueError" /\ UNCHANGED nc_returned
       ELSE /\ nc_returned' = NicerExtinction(FilledColors(Colors(nc_features)),
                                              Color0(nc_control.features), nc_b)
            /\ UNCHANGED nc_raised
    /\ UNCHANGED <<nc_features, nc_control, nc_b>>
    /\ UNCHANGED <<ev_vars, init_vars, comb_vars, db_vars, single_vars, grid_vars, pn_vars,
                   px_vars, pool_vars, sg_vars, np_empty_raises>>

NextNicer == Nicer

SpecNicer == InitNicer /\ [][NextNicer]_vars

\* a colour is available when it is a finite number
AvailableColors(i) ==
    {l \in 1..(Len(nc_features) - 1) : IsFinite(Colors(nc_features)[l][i])}

\* the extinction of source i with every missing colour taken as 0
ZeroFilledExtinction(i) ==
    LET c == Colors(nc_features)
    IN  FSum([l \in DOMAIN c |->
            FMul(nc_b[l], FSub(IF l \in AvailableColors(i) THEN c[l][i] ELSE Num(0),
                               Color0(nc_control.features)[l]))])

\* C19: nicer() returns NaN for exactly the sources without any available
\* colour; every other source gets the finite extinction in which each
\* missing colour counts as 0 before the intrinsic colour is subtracted
C19_NaNExactlyWithoutColors ==
    (nc_pc = "done" /\ nc_raised = NoError) =>
        \A i \in DOMAIN nc_returned :
            IF AvailableColors(i) = {} THEN IsNaN(nc_returned[i])
            ELSE /\ IsFinite(nc_returned[i])
                 /\ nc_returned[i] = ZeroFilledExtinction(i)


\* ------------------------------------------------------------------------
\* ExtinctionMap instances (src/pnicer.py 1060-1077, 1010-1031)

\* the instances the program holds: what build_map or ExtinctionMap returned
IsExtinctionMap ==
    /\ pool_kind \in {"build_map", "ExtinctionMap"}
    /\ pool_pc = "done" /\ pool_raised = NoError

\* C21: every ExtinctionMap instance holds three grids of one 2D shape; a
\* map made by build_map has the shape of the coordinate grid and holds at
\* every grid position the worker result for the pixel at that position
C21_ThreeGridsOfOneShape ==
    IsExtinctionMap =>
        /\ Len(pool_returned.map.shape) = 2
        /\ pool_returned.err.shape = pool_returned.map.shape
        /\ pool_returned.num.shape = pool_returned.map.shape
        /\ pool_kind = "build_map" =>
            /\ pool_returned.map.shape = map_shape
            /\ \A k \in DOMAIN map_pixels :
                \A r \in {get_extinction_pixel(map_pixels[k], map_db.lon, map_db.extinction,
                                               map_db.error, map_bandwidth, map_method,
                                               map_nicest, map_strict_index).val} :
                    /\ pool_returned.map.data[k] = r.epixel
                    /\ pool_returned.err.data[k] = r.epixel_err_sq
                    /\ pool_returned.num.data[k] = r.npixel


\* ------------------------------------------------------------------------
\* DataBase._pnicer_single, lines 194-246: the grids, the density vectors,
\* their statistics and the matching of the sources, for two features (one
\* reddening and one transverse axis)

MaxSingle == 2

\* numpy.floor and numpy.ceil of a finite float, as integers
Floor(x) == Val(x)[1] \div Val(x)[2]
Ceil(x) == -((-Val(x)[1]) \div Val(x)[2])

\* numpy.arange(start, stop, step) for a positive step
Arange(start, stop, step) ==
    LET len == IF stop <= start THEN 0 ELSE Ceil(FDiv(Num(stop - start), step))
    IN  [i \in 1..len |-> FAdd(Num(start), FMul(Num(i - 1), step))]

\* line 201: np.vstack(science_rot.features)[1:, :], the transverse features
\* the grid is built from
TransverseDataOfControl(science_rot, control_rot) == control_rot[2]

TransverseData(science_rot, control_rot) == science_rot[2]

\* line 201: the transverse grid, a set of points with one coordinate
GridData(data, precision) == build_grid([k \in DOMAIN data |-> <<data[k]>>], precision)

\* lines 204-205
GridExt(rot0, bin_ext) ==
    Arange(Floor(FMin(Range(rot0))), Ceil(FMax(Range(rot0))), bin_ext)

\* weighted_avg (lines 1334-1345): <<average, variance>>, the square of the
\* returned standard deviation
weighted_avg(values, weights) ==
    LET sw == NanSum(weights)
        average == FDiv(NanSum([i \in DOMAIN values |-> FMul(values[i], weights[i])]), sw)
        variance ==
            FDiv(NanSum([i \in DOMAIN values |->
                            FMul(Sq(FSub(values[i], average)), weights[i])]), sw)
    IN  <<average, variance>>

\* line 225: np.sum(vec) < 3, False for a NaN sum
TooFewStarsBelowTwo(vec) == FLt(FSum(vec), Num(2))

TooFewStars(vec) == FLt(FSum(vec), Num(3))

\* lines 223-231 for one vector: <<grid_mean, grid_std ** 2>>
GridStat(vec, grid_ext, norm) ==
    IF TooFewStars(vec) THEN <<NaN, NaN>>
    ELSE LET ab == weighted_avg(grid_ext, vec)
         IN  <<ab[1], FDiv(ab[2], Sq(norm))>>

\* lines 238-240: the grid points nearest to a transverse value
Nearest(x, tgrid) ==
    {g \in tgrid :
        \A h \in tgrid : ~FLt(Sq(FSub(x, h[1])), Sq(FSub(x, g[1])))}

\* what mp_kde (absolute) may give along a vector of the grid: a total of 2
\* per point of grid_ext, a total of 3, or NaN
DensVectors(len) ==
    {[e \in 1..len |-> Num(2)],
     [e \in 1..len |-> IF e = len THEN Num(3) ELSE Num(0)],
     [e \in 1..len |-> NaN]}

SingleRot0 == {Rat(3, 2), Num(3)}
SingleRot1 == {Rat(-1, 4), Num(1), Rat(5, 2)}
SingleControls == {<<<<Num(1)>>, <<Num(7)>>>>}
SingleBins == {Num(1), Num(2)}
SingleNorms == {Num(2), Num(-1)}

InitSingle ==
    /\ EvIdle /\ InitIdle /\ CombIdle /\ DbIdle /\ SingleIdle /\ GridIdle /\ PnIdle /\ PxIdle
    /\ PoolIdle /\ NcIdle
    /\ np_empty_raises = FALSE
    /\ \E n \in 1..MaxSingle :
        \E rot0 \in [1..n -> SingleRot0], rot1 \in [1..n -> SingleRot1] :
            sg_science_rot = <<rot0, rot1>>
    /\ sg_control_rot \in SingleControls
    /\ sg_bin \in SingleBins
    /\ sg_norm \in SingleNorms
    /\ sg_pc = "call"
    /\ sg_grid_data = None /\ sg_grid_ext = None /\ sg_dens_vectors = None
    /\ sg_grid_mean = None /\ sg_grid_std_sq = None /\ sg_indices = None
    /\ sg_ext = None /\ sg_ext_err_sq = None
    /\ sg_raised = NoError

\* lines 200-246. An empty grid_ext gives mp_kde an empty grid: the call
\* raises where scikit-learn rejects it and else goes on with empty vectors
SingleDensity ==
    /\ sg_pc = "call"
    /\ sg_pc' = "done"
    /\ \E tgrid \in {GridData(TransverseData(sg_science_rot, sg_control_rot), sg_bin)},
          egrid \in {GridExt(sg_science_rot[1], sg_bin)} :
        /\ sg_grid_data' = tgrid
        /\ sg_grid_ext' = egrid
        /\ \/ /\ egrid = <<>>
              /\ sg_raised' = "ValueError"
              /\ UNCHANGED <<sg_dens_vectors, sg_grid_mean, sg_grid_std_sq, sg_indices,
                             sg_ext, sg_ext_err_sq>>
           \/ \E dens \in [tgrid -> DensVectors(Len(egrid))] :
              \E stat \in {[g \in tgrid |-> GridStat(dens[g], egrid, sg_norm)]} :
              \E indices \in {f \in [DOMAIN sg_science_rot[2] -> tgrid] :
                                \A k \in DOMAIN f :
                                    f[k] \in Nearest(sg_science_rot[2][k], tgrid)} :
                /\ sg_dens_vectors' = dens
                /\ sg_grid_mean' = [g \in tgrid |-> stat[g][1]]
                /\ sg_grid_std_sq' = [g \in tgrid |-> stat[g][2]]
                /\ sg_indices' = indices
                /\ sg_ext' = [k \in DOMAIN indices |->
                                FDiv(FSub(sg_science_rot[1][k], stat[indices[k]][1]), sg_norm)]
                /\ sg_ext_err_sq' = [k \in DOMAIN indices |-> stat[indices[k]][2]]
                /\ UNCHANGED sg_raised
    /\ UNCHANGED <<sg_science_rot, sg_control_rot, sg_bin, sg_norm>>
    /\ UNCHANGED <<ev_vars, init_vars, comb_vars, db_vars, single_vars, grid_vars, pn_vars,
                   px_vars, pool_vars, nc_vars, np_empty_raises>>

NextSingle == SingleDensity

SpecSingle == InitSingle /\ [][NextSingle]_vars

\* the total density along the vector of a transverse grid point
Mass(g) == FSum(sg_dens_vectors[g])

SingleReturned == sg_pc = "done" /\ sg_raised = NoError

\* C23: a transverse grid point with a total density below 3 has NaN mean
\* and NaN std, the sources matched to it have NaN extinction and NaN error,
\* and the sources matched to a point with a total of at least 3 have a
\* finite extinction and a finite error
C23_TooFewStarsGiveNaN ==
    SingleReturned =>
        /\ \A g \in sg_grid_data :
            FLt(Mass(g), Num(3)) => (IsNaN(sg_grid_mean[g]) /\ IsNaN(sg_grid_std_sq[g]))
        /\ \A k \in DOMAIN sg_indices :
            /\ FLt(Mass(sg_indices[k]), Num(3)) =>
                    (IsNaN(sg_ext[k]) /\ IsNaN(sg_ext_err_sq[k]))
            /\ (IsFinite(Mass(sg_indices[k])) /\ ~FLt(Mass(sg_indices[k]), Num(3))) =>
                    (IsFinite(sg_ext[k]) /\ IsFinite(sg_ext_err_sq[k]))

\* two sources, one matched to a point with a total of 2, one to a point
\* with a total of 3
C23_Witness ==
    /\ SingleReturned
    /\ \E k, l \in DOMAIN sg_indices :
        /\ Mass(sg_indices[k]) = Num(2) /\ IsNaN(sg_ext[k])
        /\ Mass(sg_indices[l]) = Num(3) /\ IsFinite(sg_ext[l])
        /\ sg_ext_err_sq[l] = Num(0)

\* C24 as stated: the transverse grid is built from the rotated control
\* field's transverse features, rounded to the bin width
C24_GridFromControl ==
    sg_pc = "done" => sg_grid_data = GridData(sg_control_rot[2], sg_bin)

\* C24: the transverse grid is built from the rotated science field's
\* transverse features, rounded to the bin width
C24_GridFromScience ==
    sg_pc = "done" => sg_grid_data = GridData(sg_science_rot[2], sg_bin)

C24_Witness ==
    /\ sg_pc = "done"
    /\ sg_grid_data = {<<NegZero>>, <<Num(2)>>}
    /\ GridData(sg_control_rot[2], sg_bin) = {<<Num(8)>>}

====
